---- MODULE Spec2Model ----
(***************************************************************************)
(* Model of punkplod23/go-agent-ollama-slm: the chat workflow of           *)
(* pkg/webui (CreateMainChat, served concurrently by the HTTP front door), *)
(* its command-line twin internal/webui (CreateMainChat, which exits the   *)
(* process on failure), and fetchFinalChatWithPolling.                     *)
(*                                                                         *)
(* Text (prompts, contents, error messages) is a sequence of tokens; ids   *)
(* are strings, "" being Go's empty string.                                *)
(***************************************************************************)
EXTENDS Integers, Sequences, FiniteSets, TLC

\* ------------------------------------------------------------------ bounds
NumRuns == 2        \* workflow runs the process may serve
MaxPollResponses == 2  \* length of the backend's scripted fetch responses

\* --------------------------------------------------------- program constants
MaxPollingAttempts == 15

Runs == 1..NumRuns

\* Prompts a caller may send (token sequences; " " is white space).
Prompts == { <<" ", "q", " ">>, <<"p">> }
\* A line typed on standard input (internal/webui reads it when the prompt is empty).
StdinLines == { <<"s", " ">> }
DocumentIDs == { "", "doc1" }
\* Chat ids the backend may assign.
ChatIDs == { "chatA", "chatB" }
ModelName == "model"

NoText == << >>

\* ------------------------------------------------------------------ helpers
IsSpace(c) == c = " "

RECURSIVE TrimLeft(_)
TrimLeft(s) ==
    IF s = << >> THEN s
    ELSE IF IsSpace(Head(s)) THEN TrimLeft(Tail(s)) ELSE s

RECURSIVE TrimRight(_)
TrimRight(s) ==
    IF s = << >> THEN s
    ELSE IF IsSpace(s[Len(s)]) THEN TrimRight(SubSeq(s, 1, Len(s) - 1)) ELSE s

\* strings.TrimSpace
TrimSpace(s) == TrimRight(TrimLeft(s))

\* uuid.New().String(): the k-th identifier generated by run r.  UUIDs are
\* random, so identifiers differ between runs and within a run.
NewUUID(r, k) == "uuid-" \o ToString(r) \o "-" \o ToString(k)

\* time.Now().UnixMilli() as read in a run's step: a round trip takes at least
\* a millisecond, so the clock reads later in every step of a run.
Now(step) == step

\* The zero value of type Message.
ZeroMessage ==
    [ id |-> "", role |-> "", content |-> NoText, timestamp |-> 0,
      parentId |-> "", modelName |-> "", modelIdx |-> 0, models |-> << >> ]

\* A Go map literal {k1: v1, k2: v2}.
MapLit2(k1, v1, k2, v2) == (k2 :> v2) @@ (k1 :> v1)

\* ---------------------------------------------------------------- transport
\* What the backend (or the network) answers to one call.
\*   transport : the round trip failed (client.Do returned an error)
\*   status    : the HTTP status
\*   decodes   : whether the body unmarshals into the response target
\*   body      : the decoded value
\*   bodyRead  : io.ReadAll read the body to its end without an error
Response(transport, status, decodes, body) ==
    [ transport |-> transport, status |-> status, decodes |-> decodes, body |-> body,
      bodyRead |-> TRUE ]

\* The same answer with the read of its body failing; decodes then says
\* whether what was read before the failure unmarshals.
ReadFailed(resp) == [resp EXCEPT !.bodyRead = FALSE]

NoError == << >>

\* callAPI taking every status below 400 for a success.
CallAPIErrRedirectOk(resp, hasTarget) ==
    IF resp.transport THEN <<"API request failed to ", "url", ": ", "transport">>
    ELSE IF resp.status < 200 \/ resp.status >= 400
         THEN <<"API call failed with status ", ToString(resp.status), ": ", "rawbody">>
    ELSE IF hasTarget /\ ~resp.decodes
         THEN <<"failed to decode response: ", "syntax", " (Response Body: ", "rawbody", ")">>
    ELSE NoError

\* callAPI: the error it returns for a response (NoError for nil).
CallAPIErr(resp, hasTarget) ==
    IF resp.transport THEN <<"API request failed to ", "url", ": ", "transport">>
    ELSE IF resp.status < 200 \/ resp.status >= 300
         THEN <<"API call failed with status ", ToString(resp.status), ": ", "rawbody">>
    ELSE IF hasTarget /\ ~resp.decodes
         THEN <<"failed to decode response: ", "syntax", " (Response Body: ", "rawbody", ")">>
    ELSE NoError

\* fmt.Errorf("failed to <what>: %w", cause)
Wrap(what, cause) == <<"failed to ", what, ": ">> \o cause


\* -------------------------------------------------------------------- state
VARIABLES
    build,             \* "server": pkg/webui behind the HTTP front door; "cli": internal/webui under main
    pc,                \* pc[r]: where run r stands
    loc,               \* loc[r]: the locals of run r's CreateMainChat
    question,          \* internal/webui: package variable question
    userMessage,       \* package variable userMessage
    assistantMessage,  \* package variable assistantMessage
    calls,             \* calls[r]: the backend calls run r issued, in issue order
    ret,               \* ret[r]: what CreateMainChat handed back to its caller
    exited,            \* os.Exit was called
    pollScript,        \* poller: the responses the backend will give, in order
    pollFetches,       \* poller: fetches issued so far
    pollPc,            \* poller: "ready" | "done"
    pollRet,           \* poller: what fetchFinalChatWithPolling returned
    dialLog,           \* dialer: the connection attempts made so far, with their outcome
    door,              \* front door: the request being served and what was done for it
    api                \* callAPI: one call, its inputs, the response and what it returned

orchVars == <<build, pc, loc, question, userMessage, assistantMessage,
              calls, ret, exited>>
pollVars == <<pollScript, pollFetches, pollPc, pollRet>>
dialVars == <<dialLog>>
\* Everything the workflow leaves alone.
auxVars == <<pollScript, pollFetches, pollPc, pollRet, dialLog, door, api>>
\* Everything the poller leaves alone.
nonPollVars == <<build, pc, loc, question, userMessage, assistantMessage,
                 calls, ret, exited, dialLog, door, api>>
\* Everything the dialer leaves alone.
nonDialVars == <<build, pc, loc, question, userMessage, assistantMessage,
                 calls, ret, exited, pollScript, pollFetches, pollPc, pollRet, door, api>>
vars == <<build, pc, loc, question, userMessage, assistantMessage,
          calls, ret, exited, pollScript, pollFetches, pollPc, pollRet, dialLog, door, api>>

NotReturned == [ returned |-> FALSE, chatID |-> "", err |-> NoError ]
Returned(chatID, err) == [ returned |-> TRUE, chatID |-> chatID, err |-> err ]

\* The front door before a request arrives.
NoDoor ==
    [ pc |-> "idle",
      req |-> [ kind |-> "none", decodes |-> FALSE, prompt |-> << >>, content |-> "",
                knowledgeID |-> "", documentID |-> "", hasFile |-> FALSE,
                registrationID |-> << >>,
                url |-> [ host |-> <<"g">>, isIP |-> FALSE, hasPort |-> FALSE, slash |-> TRUE ] ],
      responses |-> << >>, files |-> << >>, ingest |-> << >>, fileID |-> "",
      ingestErr |-> << >>,
      opened |-> {}, closed |-> {},
      image |-> [ returned |-> FALSE, registrationID |-> << >>, err |-> << >> ],
      tool |-> [ returned |-> FALSE, ownerID |-> << >>, err |-> << >> ] ]

\* callAPI before it is called.
NoApi ==
    [ pc |-> "idle", hasBody |-> FALSE, hasTarget |-> FALSE, sent |-> FALSE,
      resp |-> [ transport |-> FALSE, status |-> 0, decodes |-> FALSE,
                 body |-> [ idKind |-> "absent", id |-> "" ], bodyRead |-> TRUE ],
      err |-> << >>, unmarshalled |-> FALSE,
      target |-> [ idKind |-> "absent", id |-> "" ] ]

ApiIdle == api = NoApi

\* What createChat has not returned yet / returned.
NoCreateChatRet == [ returned |-> FALSE, chatID |-> "", userMsgID |-> "", err |-> << >> ]
CreateChatRet(chatID, userMsgID, err) ==
    [ returned |-> TRUE, chatID |-> chatID, userMsgID |-> userMsgID, err |-> err ]

\* knowledgeID: the knowledge id CreateMainChat passes to triggerCompletion;
\* reads: the values of the package variable userMessage read so far while a
\* payload is being built; rawResponse: createChat's decoded response;
\* created: what createChat returned to CreateMainChat.
ZeroLocals ==
    [ prompt |-> NoText, documentID |-> "", question |-> NoText, chatID |-> "",
      userMsgID |-> "", assistantMsgID |-> "", knowledgeID |-> "", reads |-> << >>,
      rawResponse |-> [ idKind |-> "absent", id |-> "" ], created |-> NoCreateChatRet ]

OrchInit ==
    /\ build \in {"server", "cli"}
    /\ pc = [r \in Runs |-> "idle"]
    /\ loc = [r \in Runs |-> ZeroLocals]
    /\ question = NoText
    /\ userMessage = ZeroMessage
    /\ assistantMessage = ZeroMessage
    /\ calls = [r \in Runs |-> << >>]
    /\ ret = [r \in Runs |-> NotReturned]
    /\ exited = FALSE

OrchIdle ==
    /\ build = "server"
    /\ pc = [r \in Runs |-> "idle"]
    /\ loc = [r \in Runs |-> ZeroLocals]
    /\ question = NoText
    /\ userMessage = ZeroMessage
    /\ assistantMessage = ZeroMessage
    /\ calls = [r \in Runs |-> << >>]
    /\ ret = [r \in Runs |-> NotReturned]
    /\ exited = FALSE

\* ------------------------------------------------------------ the call log
\* The path callAPI is given for a call.
Path(kind, chatID) ==
    IF kind = "create" THEN <<"/api/v1/chats/new">>
    ELSE IF kind = "update" THEN <<"/api/v1/chats/", chatID>>
    ELSE <<"/api/chat/completions">>

Call(r, step, kind, path, payload) ==
    [ run |-> r, step |-> step, kind |-> kind, path |-> path, payload |-> payload,
      state |-> "inflight" ]

\* Run r issues a call.
Issue(r, call) == [calls EXCEPT ![r] = Append(@, call)]

\* Run r's call in flight (its latest) comes back: callAPI returned err.
Settle(r, err) ==
    [calls EXCEPT ![r][Len(calls[r])].state = IF err = NoError THEN "ok" ELSE "failed"]

\* ------------------------------------------------------------- the workflow
\* CreateMainChat is entered.  pkg/webui trims the prompt into a local;
\* internal/webui stores it in the package variable question and reads a line
\* from standard input when it is empty.  internal/webui runs on the main
\* goroutine: a call begins only when no other call is under way.
Start(r) ==
    /\ pc[r] = "idle"
    /\ ~exited
    /\ \E prompt \in Prompts \cup {NoText}, documentID \in DocumentIDs, line \in StdinLines :
         \/ /\ build = "server"
            /\ loc' = [loc EXCEPT ![r] = [ZeroLocals EXCEPT !.prompt = prompt,
                                                           !.documentID = documentID,
                                                           !.question = TrimSpace(prompt)]]
            /\ UNCHANGED question
         \/ /\ build = "cli"
            /\ \A q \in Runs \ {r} : pc[q] \in {"idle", "done"}
            /\ documentID = ""
            /\ LET q == IF prompt = NoText THEN TrimSpace(line) ELSE prompt
               IN /\ question' = q
                  /\ loc' = [loc EXCEPT ![r] = [ZeroLocals EXCEPT !.prompt = prompt,
                                                                 !.question = q]]
    /\ pc' = [pc EXCEPT ![r] = "createChat"]
    /\ UNCHANGED <<build, userMessage, assistantMessage, calls, ret, exited>>
    /\ UNCHANGED auxVars

\* createChat storing the user message only while the package variable still
\* holds its zero value.
CreateChatStoreOnce(r) ==
    /\ pc[r] = "createChat"
    /\ ~exited
    /\ LET userMsgID == NewUUID(r, 1)
       IN /\ userMessage' = IF userMessage = ZeroMessage
                            THEN [ZeroMessage EXCEPT !.id = userMsgID,
                                                     !.role = "user",
                                                     !.content = loc[r].question,
                                                     !.timestamp = Now(1),
                                                     !.models = <<ModelName>>]
                            ELSE userMessage
          /\ loc' = [loc EXCEPT ![r].userMsgID = userMsgID]
    /\ pc' = [pc EXCEPT ![r] = "createChatRead"]
    /\ UNCHANGED <<build, question, assistantMessage, calls, ret, exited>>
    /\ UNCHANGED auxVars

\* createChat, first half: generate the user-message id and store the user
\* message in the package variable.
CreateChatStore(r) ==
    /\ pc[r] = "createChat"
    /\ ~exited
    /\ LET userMsgID == NewUUID(r, 1)
       IN /\ userMessage' = [ZeroMessage EXCEPT !.id = userMsgID,
                                                !.role = "user",
                                                !.content = loc[r].question,
                                                !.timestamp = Now(1),
                                                !.models = <<ModelName>>]
          /\ loc' = [loc EXCEPT ![r].userMsgID = userMsgID]
    /\ pc' = [pc EXCEPT ![r] = "createChatRead"]
    /\ UNCHANGED <<build, question, assistantMessage, calls, ret, exited>>
    /\ UNCHANGED auxVars

Tools == IF build = "server" THEN <<"DVSA Lookup">> ELSE << >>

\* The request payload of POST /api/v1/chats/new.  The package variable
\* userMessage is read twice while the literal is evaluated: listed is the
\* value read for Messages, mapped the value read for the history map.
CreatePayload(userQuestion, userMsgID, listed, mapped) ==
    [ id |-> "",
      title |-> userQuestion,
      models |-> <<ModelName>>,
      messages |-> <<listed>>,
      tools |-> Tools,
      history |-> [ current_id |-> userMsgID,
                    messages |-> (userMsgID :> mapped) ] ]

\* createChat builds its payload: userMessage is read for the message list.
\* The reads of the package variable are not synchronised with the writes of
\* other runs, so each read is a step of its own.
CreateChatRead(r) ==
    /\ pc[r] = "createChatRead"
    /\ ~exited
    /\ loc' = [loc EXCEPT ![r].reads = <<userMessage>>]
    /\ pc' = [pc EXCEPT ![r] = "createChatSend"]
    /\ UNCHANGED <<build, question, userMessage, assistantMessage, calls, ret, exited>>
    /\ UNCHANGED auxVars

\* createChat reads userMessage for the history map and issues the call.
CreateChatSend(r) ==
    /\ pc[r] = "createChatSend"
    /\ ~exited
    /\ calls' = Issue(r, Call(r, 1, "create", Path("create", ""),
                   CreatePayload(loc[r].question, loc[r].userMsgID,
                                 loc[r].reads[1], userMessage)))
    /\ loc' = [loc EXCEPT ![r].reads = << >>]
    /\ pc' = [pc EXCEPT ![r] = "createChatWait"]
    /\ UNCHANGED <<build, question, userMessage, assistantMessage, ret, exited>>
    /\ UNCHANGED auxVars

\* What the backend may answer.
Statuses == {200, 500}
NoBody == [ idKind |-> "absent", id |-> "" ]
\* Decoded bodies of the create-chat response: the top-level "id" is absent,
\* not a string, an empty string or a chat id.
CreateBodies ==
    { NoBody, [ idKind |-> "number", id |-> "" ], [ idKind |-> "string", id |-> "" ] }
    \cup { [ idKind |-> "string", id |-> c ] : c \in ChatIDs }

Responses(bodies) ==
    { Response(TRUE, 0, FALSE, NoBody) }
    \cup { Response(FALSE, s, d, b) : s \in Statuses, d \in BOOLEAN, b \in bodies }
    \cup { ReadFailed(Response(FALSE, s, d, b)) : s \in Statuses, d \in BOOLEAN, b \in bodies }

\* rawResponse["id"].(string): the value and the ok flag.
IdString(body) == IF body.idKind = "string" THEN body.id ELSE ""
IdOk(body) == body.idKind = "string"

\* rawResponse after callAPI: the decoded body, or the nil map when callAPI
\* failed before decoding.
Decoded(resp) == IF CallAPIErr(resp, TRUE) = NoError THEN resp.body ELSE NoBody

\* createChat accepting an empty string as the chat id.
CreateChatErrEmptyIdAccepted(resp) ==
    IF CallAPIErr(resp, TRUE) # NoError THEN Wrap("create chat", CallAPIErr(resp, TRUE))
    ELSE IF ~IdOk(resp.body)
         THEN <<"failed to extract top-level ChatID from API response">>
    ELSE NoError

\* The error createChat returns for a response (NoError for nil).
CreateChatErr(resp) ==
    IF CallAPIErr(resp, TRUE) # NoError THEN Wrap("create chat", CallAPIErr(resp, TRUE))
    ELSE IF ~IdOk(resp.body) \/ IdString(resp.body) = ""
         THEN <<"failed to extract top-level ChatID from API response">>
    ELSE NoError

\* Abort without its return statement: the error is printed and the run goes on.
AbortFallThrough(r, err) ==
    /\ pc' = [pc EXCEPT ![r] = IF pc[r] = "createChatWait" THEN "updateChat"
                                ELSE IF pc[r] = "updateChatWait" THEN "triggerCompletion"
                                ELSE "done"]
    /\ ret' = IF pc[r] = "triggerCompletionWait"
              THEN [ret EXCEPT ![r] = Returned(loc[r].chatID, NoError)]
              ELSE ret
    /\ UNCHANGED exited

\* A failed step ends the run: pkg/webui returns ("", err) to its caller,
\* internal/webui prints the error and calls os.Exit(1).
Abort(r, err) ==
    \/ /\ build = "server"
       /\ ret' = [ret EXCEPT ![r] = Returned("", err)]
       /\ pc' = [pc EXCEPT ![r] = "done"]
       /\ UNCHANGED exited
    \/ /\ build = "cli"
       /\ exited' = TRUE
       /\ pc' = [pc EXCEPT ![r] = "exited"]
       /\ UNCHANGED ret

\* The create-chat call comes back; on success CreateMainChat generates the
\* assistant-message id.
CreateChatReturn(r) ==
    /\ pc[r] = "createChatWait"
    /\ ~exited
    /\ \E resp \in Responses(CreateBodies) :
         /\ calls' = Settle(r, CallAPIErr(resp, TRUE))
         /\ IF CreateChatErr(resp) # NoError
            THEN /\ Abort(r, CreateChatErr(resp))
                 /\ loc' = [loc EXCEPT ![r].rawResponse = Decoded(resp),
                                       ![r].created = CreateChatRet("", "", CreateChatErr(resp))]
            ELSE /\ loc' = [loc EXCEPT ![r].rawResponse = Decoded(resp),
                                       ![r].created = CreateChatRet(IdString(resp.body),
                                                                    loc[r].userMsgID, NoError),
                                       ![r].chatID = IdString(resp.body),
                                       ![r].assistantMsgID = NewUUID(r, 2)]
                 /\ pc' = [pc EXCEPT ![r] = "updateChat"]
                 /\ UNCHANGED <<ret, exited>>
    /\ UNCHANGED <<build, question, userMessage, assistantMessage>>
    /\ UNCHANGED auxVars

\* The assistant message of the payload taking its parent from the package
\* variable userMessage.
CurrentAssistantMessageGlobalParent(userMsgID, assistantMsgID) ==
    [ id |-> assistantMsgID, role |-> "assistant", content |-> NoText,
      timestamp |-> Now(2), parentId |-> userMessage.id, modelName |-> ModelName,
      modelIdx |-> 0, models |-> <<ModelName>> ]

\* The assistant message of the payload keeping the time of step 1.
CurrentAssistantMessageReusedTime(userMsgID, assistantMsgID) ==
    [ id |-> assistantMsgID, role |-> "assistant", content |-> NoText,
      timestamp |-> Now(1), parentId |-> userMsgID, modelName |-> ModelName,
      modelIdx |-> 0, models |-> <<ModelName>> ]

\* updateChat: the assistant message built for the payload.
CurrentAssistantMessage(userMsgID, assistantMsgID) ==
    [ id |-> assistantMsgID, role |-> "assistant", content |-> NoText,
      timestamp |-> Now(2), parentId |-> userMsgID, modelName |-> ModelName,
      modelIdx |-> 0, models |-> <<ModelName>> ]

\* The update payload with the history pointer left on the user message.
UpdatePayloadStaleCurrent(chatID, userMsgID, assistantMsgID, title, listed, keyed, mapped) ==
    LET cur == CurrentAssistantMessage(userMsgID, assistantMsgID)
    IN [ id |-> chatID,
         title |-> title,
         models |-> <<ModelName>>,
         messages |-> <<listed, cur>>,
         tools |-> Tools,
         history |-> [ current_id |-> userMsgID,
                       messages |-> MapLit2(keyed.id, mapped, cur.id, cur) ] ]

\* The request payload of POST /api/v1/chats/{id}.  The package variable
\* userMessage is read three times while the literal is evaluated: listed is
\* the value read for Messages, keyed the one whose ID is the map key, mapped
\* the one stored under that key.
UpdatePayload(chatID, userMsgID, assistantMsgID, title, listed, keyed, mapped) ==
    LET cur == CurrentAssistantMessage(userMsgID, assistantMsgID)
    IN [ id |-> chatID,
         title |-> title,
         models |-> <<ModelName>>,
         messages |-> <<listed, cur>>,
         tools |-> Tools,
         history |-> [ current_id |-> cur.id,
                       messages |-> MapLit2(keyed.id, mapped, cur.id, cur) ] ]

\* updateChat's description of its step.
Description(step) ==
    IF step = 2 THEN "Inject empty assistant message"
    ELSE IF step = 4 THEN "Update chat with model details"
    ELSE ""

\* updateChat dropping callAPI's error.
UpdateChatErrIgnored(step, resp) == NoError

UpdateChatErr(step, resp) ==
    IF CallAPIErr(resp, FALSE) # NoError THEN Wrap(Description(step), CallAPIErr(resp, FALSE))
    ELSE NoError

\* updateChat(chatID, 2, ...): store the assistant message in the package
\* variable and start building the payload: userMessage is read for the
\* message list.  pkg/webui takes the title as an argument, internal/webui
\* from the package variable question.
UpdateChatStore(r) ==
    /\ pc[r] = "updateChat"
    /\ ~exited
    /\ assistantMessage' = CurrentAssistantMessage(loc[r].userMsgID, loc[r].assistantMsgID)
    /\ loc' = [loc EXCEPT ![r].reads = <<userMessage>>]
    /\ pc' = [pc EXCEPT ![r] = "updateChatKey"]
    /\ UNCHANGED <<build, question, userMessage, calls, ret, exited>>
    /\ UNCHANGED auxVars

\* updateChat reads userMessage.ID for the key of the history map.
UpdateChatKey(r) ==
    /\ pc[r] = "updateChatKey"
    /\ ~exited
    /\ loc' = [loc EXCEPT ![r].reads = Append(@, userMessage)]
    /\ pc' = [pc EXCEPT ![r] = "updateChatSend"]
    /\ UNCHANGED <<build, question, userMessage, assistantMessage, calls, ret, exited>>
    /\ UNCHANGED auxVars

\* updateChat reads userMessage for the value of the history map and issues
\* the call.
UpdateChatSend(r) ==
    /\ pc[r] = "updateChatSend"
    /\ ~exited
    /\ calls' = Issue(r, Call(r, 2, "update", Path("update", loc[r].chatID),
                   UpdatePayload(loc[r].chatID, loc[r].userMsgID, loc[r].assistantMsgID,
                                 IF build = "server" THEN loc[r].question ELSE question,
                                 loc[r].reads[1], loc[r].reads[2], userMessage)))
    /\ loc' = [loc EXCEPT ![r].reads = << >>]
    /\ pc' = [pc EXCEPT ![r] = "updateChatWait"]
    /\ UNCHANGED <<build, question, userMessage, assistantMessage, ret, exited>>
    /\ UNCHANGED auxVars

UpdateChatReturn(r) ==
    /\ pc[r] = "updateChatWait"
    /\ ~exited
    /\ \E resp \in Responses({NoBody}) :
         /\ calls' = Settle(r, CallAPIErr(resp, FALSE))
         /\ IF UpdateChatErr(2, resp) # NoError
            THEN Abort(r, UpdateChatErr(2, resp))
            ELSE /\ pc' = [pc EXCEPT ![r] = "triggerCompletion"]
                 /\ UNCHANGED <<ret, exited>>
    /\ UNCHANGED <<build, loc, question, userMessage, assistantMessage>>
    /\ UNCHANGED auxVars

FileReference(type, id) == [ type |-> type, id |-> id ]

\* The files of a completion request.
Files(knowledgeID, documentID) ==
    (IF knowledgeID # "" THEN <<FileReference("collection", knowledgeID)>> ELSE << >>)
    \o (IF documentID # "" THEN <<FileReference("file", documentID)>> ELSE << >>)

\* The request payload of POST /api/chat/completions.
CompletionPayload(chatID, assistantMsgID, knowledgeID, documentID) ==
    [ chat_id |-> chatID,
      id |-> assistantMsgID,
      messages |-> <<userMessage>>,
      model |-> ModelName,
      stream |-> TRUE,
      datetime |-> Now(3),
      session_id |-> chatID,
      files |-> Files(knowledgeID, documentID) ]

TriggerCompletionErr(resp) ==
    IF CallAPIErr(resp, FALSE) # NoError THEN Wrap("trigger completion", CallAPIErr(resp, FALSE))
    ELSE NoError

\* triggerCompletion: pkg/webui passes "" for the knowledge id and the caller's
\* document id; internal/webui attaches no files.
TriggerCompletionSend(r) ==
    /\ pc[r] = "triggerCompletion"
    /\ ~exited
    /\ calls' = Issue(r, Call(r, 3, "completion", Path("completion", ""),
                   CompletionPayload(loc[r].chatID, loc[r].assistantMsgID, loc[r].knowledgeID,
                                     IF build = "server" THEN loc[r].documentID ELSE "")))
    /\ pc' = [pc EXCEPT ![r] = "triggerCompletionWait"]
    /\ UNCHANGED <<build, loc, question, userMessage, assistantMessage, ret, exited>>
    /\ UNCHANGED auxVars

\* The completion call comes back and a failed call is issued again.
TriggerCompletionReturnRetry(r) ==
    /\ pc[r] = "triggerCompletionWait"
    /\ ~exited
    /\ \E resp \in Responses({NoBody}) :
         /\ calls' = Settle(r, CallAPIErr(resp, FALSE))
         /\ IF TriggerCompletionErr(resp) # NoError
            THEN /\ pc' = [pc EXCEPT ![r] = "triggerCompletion"]
                 /\ UNCHANGED <<ret, exited>>
            ELSE /\ ret' = [ret EXCEPT ![r] =
                              Returned(IF build = "server" THEN loc[r].chatID ELSE "", NoError)]
                 /\ pc' = [pc EXCEPT ![r] = "done"]
                 /\ UNCHANGED exited
    /\ UNCHANGED <<build, loc, question, userMessage, assistantMessage>>
    /\ UNCHANGED auxVars

\* The completion call comes back and on success the step-4 update is sent.
TriggerCompletionReturnThenUpdate(r) ==
    /\ pc[r] = "triggerCompletionWait"
    /\ ~exited
    /\ \E resp \in Responses({NoBody}) :
         IF TriggerCompletionErr(resp) # NoError
         THEN /\ calls' = Settle(r, CallAPIErr(resp, FALSE))
              /\ Abort(r, TriggerCompletionErr(resp))
         ELSE /\ calls' = [calls EXCEPT ![r] =
                              Append(Settle(r, NoError)[r],
                                     Call(r, 4, "update", Path("update", loc[r].chatID),
                                          UpdatePayload(loc[r].chatID, loc[r].userMsgID,
                                                        loc[r].assistantMsgID, loc[r].question,
                                                        userMessage, userMessage, userMessage)))]
              /\ ret' = [ret EXCEPT ![r] =
                           Returned(IF build = "server" THEN loc[r].chatID ELSE "", NoError)]
              /\ pc' = [pc EXCEPT ![r] = "done"]
              /\ UNCHANGED exited
    /\ UNCHANGED <<build, loc, question, userMessage, assistantMessage>>
    /\ UNCHANGED auxVars

\* The completion call comes back; on success pkg/webui returns (chatID, nil)
\* and internal/webui returns (nil, "").
TriggerCompletionReturn(r) ==
    /\ pc[r] = "triggerCompletionWait"
    /\ ~exited
    /\ \E resp \in Responses({NoBody}) :
         /\ calls' = Settle(r, CallAPIErr(resp, FALSE))
         /\ IF TriggerCompletionErr(resp) # NoError
            THEN Abort(r, TriggerCompletionErr(resp))
            ELSE /\ ret' = [ret EXCEPT ![r] =
                              Returned(IF build = "server" THEN loc[r].chatID ELSE "", NoError)]
                 /\ pc' = [pc EXCEPT ![r] = "done"]
                 /\ UNCHANGED exited
    /\ UNCHANGED <<build, loc, question, userMessage, assistantMessage>>
    /\ UNCHANGED auxVars

\* ---------------------------------------------------------------- the poller
\* The assistant-message id the poller is asked about.
PolledID == NewUUID(1, 2)

PollContents == { NoText, <<"a">>, <<"b">> }
PollMessages == { [ role |-> ro, content |-> c ] : ro \in {"assistant", "user"}, c \in PollContents }
\* Chats as the backend may return them: the polled id is in the history map
\* or only some other message is.
PollChats ==
    { [ history |-> [ messages |-> (PolledID :> m) ] ] : m \in PollMessages }
    \cup { [ history |-> [ messages |-> ("other" :> [ role |-> "assistant", content |-> <<"b">> ]) ] ] }
\* A second element the backend may put in the list.
DecoyChat == [ history |-> [ messages |-> (PolledID :> [ role |-> "assistant", content |-> <<"b">> ]) ] ]
PollLists == { << >> } \cup { <<c>> : c \in PollChats } \cup { <<c, DecoyChat>> : c \in PollChats }

\* What the backend may answer to GET /api/v1/chats/{id}.
FetchResponses ==
    { Response(TRUE, 0, FALSE, << >>), Response(FALSE, 500, TRUE, << >>),
      Response(FALSE, 200, FALSE, << >>) }
    \cup { Response(FALSE, 200, TRUE, l) : l \in PollLists }

PollScripts == UNION { [1..n -> FetchResponses] : n \in 1..MaxPollResponses }

\* The backend's answer to the i-th fetch: the script, then its last entry again.
RespAt(i) == pollScript[IF i < Len(pollScript) THEN i ELSE Len(pollScript)]

PollReturn(content, err) == [ content |-> content, err |-> err ]

\* fetchFinalChatWithPolling accepting a message of any role.
FetchResultAnyRole(resp, assistantMsgID) ==
    IF CallAPIErr(resp, TRUE) # NoError
    THEN PollReturn(NoText, Wrap("fetch chat state", CallAPIErr(resp, TRUE)))
    ELSE IF Len(resp.body) = 0
    THEN PollReturn(NoText, <<"chat response array was empty, continuing poll">>)
    ELSE LET msgs == resp.body[1].history.messages
         IN IF assistantMsgID \notin DOMAIN msgs
            THEN PollReturn(NoText, <<"assistant message ID not yet present in history, continuing poll">>)
            ELSE IF msgs[assistantMsgID].content = NoText
            THEN PollReturn(NoText, <<"assistant message content is empty, continuing poll">>)
            ELSE PollReturn(msgs[assistantMsgID].content, NoError)

\* fetchFinalChatWithPolling looking at the content before the role.
FetchResultContentFirst(resp, assistantMsgID) ==
    IF CallAPIErr(resp, TRUE) # NoError
    THEN PollReturn(NoText, Wrap("fetch chat state", CallAPIErr(resp, TRUE)))
    ELSE IF Len(resp.body) = 0
    THEN PollReturn(NoText, <<"chat response array was empty, continuing poll">>)
    ELSE LET msgs == resp.body[1].history.messages
         IN IF assistantMsgID \notin DOMAIN msgs
            THEN PollReturn(NoText, <<"assistant message ID not yet present in history, continuing poll">>)
            ELSE IF msgs[assistantMsgID].content = NoText
            THEN PollReturn(NoText, <<"assistant message content is empty, continuing poll">>)
            ELSE IF msgs[assistantMsgID].role # "assistant"
            THEN PollReturn(NoText, <<"found message, but role is incorrect, continuing poll">>)
            ELSE PollReturn(msgs[assistantMsgID].content, NoError)

\* fetchFinalChatWithPolling: what it returns for the response to its fetch.
FetchResult(resp, assistantMsgID) ==
    IF CallAPIErr(resp, TRUE) # NoError
    THEN PollReturn(NoText, Wrap("fetch chat state", CallAPIErr(resp, TRUE)))
    ELSE IF Len(resp.body) = 0
    THEN PollReturn(NoText, <<"chat response array was empty, continuing poll">>)
    ELSE LET msgs == resp.body[1].history.messages
         IN IF assistantMsgID \notin DOMAIN msgs
            THEN PollReturn(NoText, <<"assistant message ID not yet present in history, continuing poll">>)
            ELSE IF msgs[assistantMsgID].role # "assistant"
            THEN PollReturn(NoText, <<"found message, but role is incorrect, continuing poll">>)
            ELSE IF msgs[assistantMsgID].content = NoText
            THEN PollReturn(NoText, <<"assistant message content is empty, continuing poll">>)
            ELSE PollReturn(msgs[assistantMsgID].content, NoError)

PollInit ==
    /\ pollScript \in PollScripts
    /\ pollFetches = 0
    /\ pollPc = "ready"
    /\ pollRet = PollReturn(NoText, NoError)

\* fetchFinalChatWithPolling is called and issues its GET.
PollFetchSend ==
    /\ pollPc = "ready"
    /\ pollFetches' = pollFetches + 1
    /\ pollPc' = "fetching"
    /\ UNCHANGED <<pollScript, pollRet>>
    /\ UNCHANGED nonPollVars

\* The GET comes back and fetchFinalChatWithPolling returns: the function has
\* no loop, every outcome of the one fetch is handed to the caller.
PollFetchReturn ==
    /\ pollPc = "fetching"
    /\ pollRet' = FetchResult(RespAt(pollFetches), PolledID)
    /\ pollPc' = "done"
    /\ UNCHANGED <<pollScript, pollFetches>>
    /\ UNCHANGED nonPollVars

PollNext == PollFetchSend \/ PollFetchReturn

PollerInit == OrchIdle /\ PollInit /\ dialLog = << >> /\ door = NoDoor /\ api = NoApi

SpecPoller == PollerInit /\ [][PollNext]_vars

PollIdle ==
    /\ pollScript = << >>
    /\ pollFetches = 0
    /\ pollPc = "done"
    /\ pollRet = PollReturn(NoText, NoError)

\* ---------------------------------------------- the hostname-blocking dialer
\* Addresses are sequences of tokens: a token is one of the characters
\* ":" "." "[" "]" or a run of other characters:
\*   "1"   a decimal number below 256 (also a hexadecimal group)
\*   "a"   hexadecimal digits, not all decimal
\*   "300" a decimal number above 255 (also a hexadecimal group)
\*   "g"   letters that are not hexadecimal digits
MaxDials == 2

IsOctet(t) == t = "1"
IsHex(t) == t \in {"1", "a", "300"}

Has(s, c) == \E i \in DOMAIN s : s[i] = c
\* Position of the first / last c in s, 0 when there is none.
Index(s, c) == IF Has(s, c) THEN CHOOSE i \in DOMAIN s : s[i] = c /\ \A j \in 1..(i - 1) : s[j] # c
               ELSE 0
LastIndex(s, c) == IF Has(s, c) THEN CHOOSE i \in DOMAIN s : s[i] = c /\ \A j \in (i + 1)..Len(s) : s[j] # c
                   ELSE 0

\* The characters of a token sequence as one string.
RECURSIVE Join(_)
Join(s) == IF s = << >> THEN "" ELSE s[1] \o Join(Tail(s))

\* net.SplitHostPort: splits at the last colon; a host in brackets must be
\* followed by the colon of the port; no other colon or bracket is allowed.
SplitHostPort(hostport) ==
    LET i == LastIndex(hostport, ":")
        bad == [ ok |-> FALSE, host |-> << >> ]
    IN IF i = 0 THEN bad
       ELSE IF hostport[1] = "["
       THEN LET end == Index(hostport, "]")
            IN IF end = 0 THEN bad
               ELSE IF end + 1 # i THEN bad
               ELSE IF Has(SubSeq(hostport, 2, Len(hostport)), "[") THEN bad
               ELSE IF Has(SubSeq(hostport, end + 1, Len(hostport)), "]") THEN bad
               ELSE [ ok |-> TRUE, host |-> SubSeq(hostport, 2, end - 1) ]
       ELSE LET host == SubSeq(hostport, 1, i - 1)
            IN IF Has(host, ":") THEN bad
               ELSE IF Has(hostport, "[") \/ Has(hostport, "]") THEN bad
               ELSE [ ok |-> TRUE, host |-> host ]

\* Four decimal numbers below 256 separated by dots.
IsIPv4(s) ==
    /\ Len(s) = 7
    /\ \A i \in {1, 3, 5, 7} : IsOctet(s[i])
    /\ \A i \in {2, 4, 6} : s[i] = "."

\* The end of the IPv6 parse: n groups were read; "::" must stand for at
\* least one group, and without it there must be eight.
V6End(n, ellipsis) == IF n < 8 THEN ellipsis ELSE ~ellipsis

\* The IPv6 parse loop, entered with s not empty, n groups read so far.
RECURSIVE V6Loop(_, _, _)
V6Loop(s, n, ellipsis) ==
    IF n >= 8 THEN FALSE
    ELSE IF ~IsHex(s[1]) THEN FALSE
    ELSE IF Len(s) >= 2 /\ s[2] = "."
    THEN /\ (ellipsis \/ n = 6)
         /\ n + 2 <= 8
         /\ IsIPv4(s)
         /\ V6End(n + 2, ellipsis)
    ELSE LET rest == Tail(s)
         IN IF rest = << >> THEN V6End(n + 1, ellipsis)
            ELSE IF rest[1] # ":" THEN FALSE
            ELSE IF Len(rest) = 1 THEN FALSE
            ELSE IF rest[2] = ":"
            THEN IF ellipsis THEN FALSE
                 ELSE IF Len(rest) = 2 THEN V6End(n + 1, TRUE)
                 ELSE V6Loop(SubSeq(rest, 3, Len(rest)), n + 1, TRUE)
            ELSE V6Loop(Tail(rest), n + 1, ellipsis)

IsIPv6(s) ==
    IF Len(s) >= 2 /\ s[1] = ":" /\ s[2] = ":"
    THEN IF Len(s) = 2 THEN TRUE ELSE V6Loop(SubSeq(s, 3, Len(s)), 0, TRUE)
    ELSE s # << >> /\ V6Loop(s, 0, FALSE)

\* net.ParseIP(s) != nil: the text is dispatched on its first "." or ":".
ParseIP(s) ==
    LET d == Index(s, ".")
        c == Index(s, ":")
    IN IF c # 0 /\ (d = 0 \/ c < d) THEN IsIPv6(s)
       ELSE IF d # 0 THEN IsIPv4(s)
       ELSE FALSE

\* What (&net.Dialer{}).DialContext does with an address: it splits it, and
\* resolves the host by name unless it is empty or an IP literal.
\*   lookup  : a name resolution is made
\*   connect : a connection is attempted
NetDial(addr) ==
    LET sp == SplitHostPort(addr)
    IN IF ~sp.ok THEN [ lookup |-> FALSE, connect |-> FALSE ]
       ELSE IF sp.host = << >> \/ ParseIP(sp.host) THEN [ lookup |-> FALSE, connect |-> TRUE ]
       ELSE [ lookup |-> TRUE, connect |-> TRUE ]

Dialed(addr) ==
    [ decision |-> "dial", err |-> NoError,
      lookup |-> NetDial(addr).lookup, connect |-> NetDial(addr).connect ]
Blocked(host) ==
    [ decision |-> "blocked",
      err |-> <<"hostname lookup blocked: connection attempt to '", Join(host), "' is prohibited">>,
      lookup |-> FALSE, connect |-> FALSE ]

\* A dialer that hands every address to net.Dialer.
SafeDialerAllowAll(addr) == Dialed(addr)

\* safeDialer(ctx, network, addr).
SafeDialer(addr) ==
    LET sp == SplitHostPort(addr)
        host == IF sp.ok THEN sp.host ELSE addr
    IN IF ParseIP(host) THEN Dialed(addr) ELSE Blocked(host)

\* Hosts, by what they are.
IPv4Hosts == { <<"1", ".", "1", ".", "1", ".", "1">> }
IPv6Hosts ==
    { <<":", ":">>, <<":", ":", "1">>, <<"1", ":", ":", "a">>,
      <<"1", ":", "1", ":", "1", ":", "1", ":", "1", ":", "1", ":", "1", ":", "a">>,
      <<":", ":", "1", ".", "1", ".", "1", ".", "1">> }
NameHosts ==
    { <<"g">>, <<"g", ".", "g">>, <<"1">>, <<"a">>, <<"1", ".", "1", ".", "1">>,
      <<"300", ".", "1", ".", "1", ".", "1">>, <<"1", ".", "1", ".", "1", ".", "g">> }
\* Texts with colons that are no IPv6 address.
BrokenHosts ==
    { <<"1", ":", ":", "1", ":", ":", "1">>, <<":", "1">>, <<"1", ":", "1", ":", "1">>,
      <<"g", ":", ":", "1">> }

Port == <<":", "1">>
\* net.JoinHostPort.
JoinHostPort(host) ==
    IF Has(host, ":") THEN <<"[">> \o host \o <<"]">> \o Port ELSE host \o Port

\* An address with what is known of it by construction: whether its host/port
\* split is well formed, and whether its host part (the whole address when the
\* split is not well formed) is an IP literal.
Address(addr, splits, literal) == [ addr |-> addr, splits |-> splits, literal |-> literal ]

Addresses ==
    { Address(JoinHostPort(h), TRUE, TRUE) : h \in IPv4Hosts \cup IPv6Hosts }
    \cup { Address(JoinHostPort(h), TRUE, FALSE) : h \in NameHosts \cup BrokenHosts \cup {<< >>} }
    \cup { Address(h, FALSE, TRUE) : h \in IPv4Hosts \cup IPv6Hosts }
    \cup { Address(h, FALSE, FALSE) : h \in NameHosts \cup {<< >>} }
    \cup { Address(<<"[">> \o h \o <<"]">>, FALSE, FALSE) : h \in IPv6Hosts }
    \* an IPv6 address and a port without brackets: "::1:1" and "1::a:1" are
    \* IPv6 addresses themselves, ":::1" and nine groups are not
    \cup { Address(<<":", ":", "1">> \o Port, FALSE, TRUE),
           Address(<<"1", ":", ":", "a">> \o Port, FALSE, TRUE),
           Address(<<":", ":">> \o Port, FALSE, FALSE),
           Address(<<"1", ":", "1", ":", "1", ":", "1", ":", "1", ":", "1", ":", "1", ":", "a">> \o Port,
                   FALSE, FALSE) }
    \* brackets out of place
    \cup { Address(<<"[", "g", "]">> \o Port, TRUE, FALSE),
           Address(<<"g", "]">> \o Port, FALSE, FALSE),
           Address(<<"[", ":", ":", "1", "]", "g">> \o Port, FALSE, FALSE) }

DialIdle == dialLog = << >>

Attempt(a, result) == [ input |-> a, result |-> result ]

\* A connection attempt that skips the check once an earlier attempt dialed.
DialAttemptCached ==
    /\ Len(dialLog) < MaxDials
    /\ \E a \in Addresses :
         dialLog' = Append(dialLog,
                      Attempt(a, IF \E i \in DOMAIN dialLog : dialLog[i].result.decision = "dial"
                                 THEN Dialed(a.addr) ELSE SafeDialer(a.addr)))
    /\ UNCHANGED nonDialVars

\* The transport of the hostname-blocking client needs a connection and calls
\* its DialContext, safeDialer, with the address.
DialAttempt ==
    /\ Len(dialLog) < MaxDials
    /\ \E a \in Addresses :
         dialLog' = Append(dialLog, Attempt(a, SafeDialer(a.addr)))
    /\ UNCHANGED nonDialVars

DialerInit == OrchIdle /\ PollIdle /\ DialIdle /\ door = NoDoor /\ api = NoApi

SpecDialer == DialerInit /\ [][DialAttempt]_vars

\* ------------------------------------------------------ the HTTP front door
\* One request is served: POST /api/v1/chat (its workflow is run 1),
\* POST /api/v1/files or POST /api/v1/vehicle-lookup.
FrontRun == 1

Contents == { "", "notes" }
KnowledgeIDs == { "", "kb1" }
FileIDs == { "file1" }

\* Registration ids, as sequences of characters.
RegistrationIDs == { << >>, <<"A", "B", "1", "2">>, <<"%", "z", "z">> }
\* Registration numbers in the registry's answer.
RegistrationNumbers == { << >>, <<"a", "b", "1">>, <<"a", "b", "1", "2">> }

HexChars == { "0", "1", "2", "a", "b", "A", "B" }
\* url.Parse rejects a path with a "%" that is not followed by two
\* hexadecimal digits.
BadEscape(id) ==
    \E i \in DOMAIN id :
        /\ id[i] = "%"
        /\ (i + 2 > Len(id) \/ id[i + 1] \notin HexChars \/ id[i + 2] \notin HexChars)

\* strings.ToUpper, character by character.
UpperChar(c) == IF c = "a" THEN "A" ELSE IF c = "b" THEN "B" ELSE c
ToUpper(s) == [ i \in DOMAIN s |-> UpperChar(s[i]) ]

\* mapRegistrationToOwnerID.
MapRegistrationToOwnerID(regID) ==
    IF Len(regID) > 3 THEN <<"OWNER-">> \o ToUpper(regID) ELSE << >>

\* cfg.DVSAAPIURL: "http://" host [":" port] ["/"].  isIP says, by
\* construction, whether the host is an IP literal.
RegistryURL(host, isIP, hasPort, slash) ==
    [ host |-> host, isIP |-> isIP, hasPort |-> hasPort, slash |-> slash ]
RegistryURLs ==
    { RegistryURL(h, TRUE, p, s) :
        h \in { <<"1", ".", "1", ".", "1", ".", "1">>, <<":", ":", "1">> },
        p \in BOOLEAN, s \in BOOLEAN }
    \cup { RegistryURL(h, FALSE, p, s) :
        h \in { <<"g">>, <<"g", ".", "g">> }, p \in BOOLEAN, s \in BOOLEAN }

\* The URL GetOwnerID builds, cfg.DVSAAPIURL + "vehicle-enquiry/v1/vehicles/" +
\* id, as http.NewRequest parses it, and the address the transport asks a
\* connection for.  Without the trailing slash the path runs into the
\* authority: after a port or a bracket the URL does not parse, after a host
\* the last label grows letters.
RequestURL(url, id) ==
    IF BadEscape(id) THEN [ ok |-> FALSE, addr |-> << >>, literal |-> FALSE ]
    ELSE IF url.slash
    THEN [ ok |-> TRUE, addr |-> JoinHostPort(url.host), literal |-> url.isIP ]
    ELSE IF url.hasPort \/ Has(url.host, ":")
    THEN [ ok |-> FALSE, addr |-> << >>, literal |-> FALSE ]
    ELSE [ ok |-> TRUE,
           addr |-> JoinHostPort(SubSeq(url.host, 1, Len(url.host) - 1) \o <<"g">>),
           literal |-> FALSE ]

\* Where a redirect of the registry may point.
RedirectTargets ==
    { Address(JoinHostPort(<<"g", ".", "g">>), TRUE, FALSE),
      Address(JoinHostPort(<<"1", ".", "1", ".", "1", ".", "1">>), TRUE, TRUE) }

\* The request as the handler sees it.  decodes: the body decodes (JSON) or
\* parses (multipart form); hasFile: the form has the part "file".
Request(kind, decodes, prompt, content, knowledgeID, documentID, hasFile, registrationID, url) ==
    [ kind |-> kind, decodes |-> decodes, prompt |-> prompt, content |-> content,
      knowledgeID |-> knowledgeID, documentID |-> documentID, hasFile |-> hasFile,
      registrationID |-> registrationID, url |-> url ]
NoRequest == NoDoor.req

ToolReturn(ownerID, err) == [ returned |-> TRUE, ownerID |-> ownerID, err |-> err ]

\* A response written to the caller: the status, the text of http.Error or
\* the fields of the JSON body.
HttpError(status, text) == [ status |-> status, text |-> text, json |-> << >> ]
HttpJSON(field, value) == [ status |-> 200, text |-> << >>, json |-> <<field, value>> ]

DoorIdle == door = NoDoor

\* A file handle is opened / closed while the request is served.
Open(d, h) == [d EXCEPT !.opened = @ \cup {h}]
Close(d, h) == [d EXCEPT !.closed = @ \cup {h}]

\* The handler writes a response and returns; its deferred calls run:
\* addFileHandler closes the form's file (and removes the temporary file by
\* name, which closes nothing).
Respond(d, resp) ==
    [d EXCEPT !.responses = Append(@, resp), !.pc = "responded",
              !.closed = @ \cup (d.opened \cap {"form"})]

\* createChatHandler going on to ingestion without its check of knowledge_id.
ChatArriveNoKnowledgeCheck ==
    /\ door.pc = "idle"
    /\ \E decodes \in BOOLEAN, prompt \in Prompts \cup {NoText}, content \in Contents,
          knowledgeID \in KnowledgeIDs, documentID \in DocumentIDs :
         LET req == Request("chat", decodes, prompt, content, knowledgeID, documentID,
                            FALSE, << >>, NoRequest.url)
             d == [door EXCEPT !.req = req]
         IN door' = IF ~decodes THEN Respond(d, HttpError(400, <<"decode error">>))
                    ELSE IF content # "" THEN [d EXCEPT !.pc = "ingest"]
                    ELSE [d EXCEPT !.pc = "callWorkflow"]
    /\ UNCHANGED <<orchVars, pollVars, dialVars, api>>

\* createChatHandler up to its first call: decode, then the check of
\* knowledge_id when content is given.
ChatArrive ==
    /\ door.pc = "idle"
    /\ \E decodes \in BOOLEAN, prompt \in Prompts \cup {NoText}, content \in Contents,
          knowledgeID \in KnowledgeIDs, documentID \in DocumentIDs :
         LET req == Request("chat", decodes, prompt, content, knowledgeID, documentID,
                            FALSE, << >>, NoRequest.url)
             d == [door EXCEPT !.req = req]
         IN door' = IF ~decodes THEN Respond(d, HttpError(400, <<"decode error">>))
                    ELSE IF content # "" /\ knowledgeID = ""
                    THEN Respond(d, HttpError(400, <<"knowledge_id is required when providing content">>))
                    ELSE IF content # "" THEN [d EXCEPT !.pc = "ingest"]
                    ELSE [d EXCEPT !.pc = "callWorkflow"]
    /\ UNCHANGED <<orchVars, pollVars, dialVars, api>>

\* addFileHandler up to AddFileToKnowledgeCollection: the form, the part
\* "file", knowledgeID, the temporary file, reading and writing the content.
FilesArrive ==
    /\ door.pc = "idle"
    /\ \E decodes \in BOOLEAN, hasFile \in BOOLEAN, knowledgeID \in KnowledgeIDs,
          content \in Contents, io \in {"ok", "createTemp", "readAll", "write"} :
         LET req == Request("files", decodes, NoText, content, knowledgeID, "",
                            hasFile, << >>, NoRequest.url)
             d == [door EXCEPT !.req = req]
         IN door' = IF ~decodes THEN Respond(d, HttpError(400, <<"multipart error">>))
                    ELSE IF ~hasFile THEN Respond(d, HttpError(400, <<"Error Retrieving the File">>))
                    ELSE IF knowledgeID = ""
                    THEN Respond(Open(d, "form"), HttpError(400, <<"knowledgeID is required">>))
                    ELSE IF io = "createTemp"
                    THEN Respond(Open(d, "form"),
                                 HttpError(500, <<"Could not create temporary file">>))
                    ELSE IF io = "readAll"
                    THEN Respond([Open(Open(d, "form"), "temp") EXCEPT !.files = <<"temp">>],
                                 HttpError(500, <<"Could not read file content">>))
                    ELSE IF io = "write"
                    THEN Respond([Open(Open(d, "form"), "temp") EXCEPT !.files = <<"temp">>],
                                 HttpError(500, <<"Could not write to temporary file">>))
                    ELSE [Open(Open(d, "form"), "temp") EXCEPT !.files = <<"temp">>,
                                                               !.pc = "ingest"]
    /\ UNCHANGED <<orchVars, pollVars, dialVars, api>>

\* The handler's answer to a failed AddFileToKnowledgeCollection.
IngestFailed(d, err) ==
    Respond([d EXCEPT !.ingestErr = err],
            HttpError(500, IF d.req.kind = "chat"
                           THEN <<"failed to add content to knowledge collection: ">> \o err
                           ELSE err))

\* CreateFile has created the local file: its handle is closed when CreateFile
\* returns, whether the write succeeded or not.
Created(d) == Close(Open([d EXCEPT !.files = Append(@, "markdown")], "markdown"), "markdown")

\* AddFileToKnowledgeCollection: the directory and the local file, then
\* uploadFileAPI opens the file, builds the multipart body and sends it.
IngestUploadSend ==
    /\ door.pc = "ingest"
    /\ \E io \in {"ok", "mkdir", "create", "write", "open", "copy"} :
         door' = IF io = "mkdir"
                 THEN IngestFailed(door, <<"failed to create temporary directory">>)
                 ELSE IF io = "create"
                 THEN IngestFailed(door, <<"failed to create markdown file: ", "failed to create file">>)
                 ELSE IF io = "write"
                 THEN IngestFailed(Created(door),
                                   <<"failed to create markdown file: ", "failed to write to file">>)
                 ELSE IF io = "open"
                 THEN IngestFailed(Created(door),
                                   Wrap("upload file", <<"failed to open file">>))
                 ELSE IF io = "copy"
                 THEN IngestFailed(Close(Open(Created(door), "upload"), "upload"),
                                   Wrap("upload file", <<"failed to copy file content">>))
                 ELSE [Open(Created(door), "upload") EXCEPT
                                   !.ingest = Append(@, [ kind |-> "upload", state |-> "inflight",
                                                          knowledgeID |-> "", fileID |-> "" ]),
                                   !.pc = "uploadWait"]
    /\ UNCHANGED <<orchVars, pollVars, dialVars, api>>

\* Decoded bodies of the upload response.
UploadBodies ==
    { NoBody, [ idKind |-> "number", id |-> "" ], [ idKind |-> "string", id |-> "" ] }
    \cup { [ idKind |-> "string", id |-> f ] : f \in FileIDs }

\* uploadFileAPI: the error it returns for a response.
UploadErr(resp) ==
    IF resp.transport THEN <<"API request failed: ", "transport">>
    ELSE IF ~resp.bodyRead THEN <<"failed to read response body: ", "unexpected EOF">>
    ELSE IF resp.status < 200 \/ resp.status >= 300
         THEN <<"API call failed with status ", ToString(resp.status), ": ", "rawbody">>
    ELSE IF ~resp.decodes THEN <<"failed to decode response JSON: ", "syntax">>
    ELSE NoError

\* The upload comes back; with a file id the add call is sent.
IngestUploadReturn ==
    /\ door.pc = "uploadWait"
    /\ \E resp \in Responses(UploadBodies) :
         LET settled == [Close(door, "upload") EXCEPT !.ingest[1].state =
                                         IF UploadErr(resp) = NoError THEN "ok" ELSE "failed"]
         IN door' = IF UploadErr(resp) # NoError
                    THEN IngestFailed(settled, Wrap("upload file", UploadErr(resp)))
                    ELSE IF ~IdOk(resp.body) \/ IdString(resp.body) = ""
                    THEN IngestFailed(settled, <<"failed to extract file_id from upload response">>)
                    ELSE [settled EXCEPT !.fileID = IdString(resp.body),
                                         !.ingest = Append(@, [ kind |-> "add", state |-> "inflight",
                                                                knowledgeID |-> door.req.knowledgeID,
                                                                fileID |-> IdString(resp.body) ]),
                                         !.pc = "addWait"]
    /\ UNCHANGED <<orchVars, pollVars, dialVars, api>>

\* The document id the chat handler hands to the workflow keeping the one of
\* the request.
IngestedDocumentIDKept(req, fileID) == req.documentID

\* The document id the chat handler hands to the workflow after ingestion:
\* req.DocumentID = DocumentID.
IngestedDocumentID(req, fileID) == fileID

\* The add call comes back: AddFileToKnowledgeCollection returns; the files
\* handler answers, the chat handler goes on to the workflow.
IngestAddReturn ==
    /\ door.pc = "addWait"
    /\ \E resp \in Responses({NoBody}) :
         LET err == CallAPIErr(resp, FALSE)
             settled == [door EXCEPT !.ingest[2].state = IF err = NoError THEN "ok" ELSE "failed"]
         IN door' = IF err # NoError
                    THEN IngestFailed(settled, Wrap("add file to knowledge collection", err))
                    ELSE IF door.req.kind = "files"
                    THEN Respond(settled, HttpJSON("fileID", door.fileID))
                    ELSE [settled EXCEPT !.req.documentID = IngestedDocumentID(door.req, door.fileID),
                                         !.pc = "callWorkflow"]
    /\ UNCHANGED <<orchVars, pollVars, dialVars, api>>

\* The chat handler calls webui.CreateMainChat(cfg, req.Prompt, knowledgeID,
\* req.DocumentID).  CreateMainChat as it stands takes the prompt and the
\* document id and passes "" for the knowledge id; the handler is written for
\* one that also takes the knowledge id: both are allowed here.
ChatCallWorkflow ==
    /\ door.pc = "callWorkflow"
    /\ pc[FrontRun] = "idle"
    /\ \E knowledgeID \in {"", door.req.knowledgeID} :
         loc' = [loc EXCEPT ![FrontRun] =
                    [ZeroLocals EXCEPT !.prompt = door.req.prompt,
                                       !.documentID = door.req.documentID,
                                       !.knowledgeID = knowledgeID,
                                       !.question = TrimSpace(door.req.prompt)]]
    /\ pc' = [pc EXCEPT ![FrontRun] = "createChat"]
    /\ door' = [door EXCEPT !.pc = "workflow"]
    /\ UNCHANGED <<build, question, userMessage, assistantMessage, calls, ret, exited>>
    /\ UNCHANGED <<pollVars, dialVars, api>>

\* The chat handler answering with the chat id whatever CreateMainChat returned.
ChatRespondAlwaysOK ==
    /\ door.pc = "workflow"
    /\ ret[FrontRun].returned
    /\ door' = Respond(door, HttpJSON("chat_id", ret[FrontRun].chatID))
    /\ UNCHANGED <<orchVars, pollVars, dialVars, api>>

\* CreateMainChat has returned: the chat handler answers.
ChatRespond ==
    /\ door.pc = "workflow"
    /\ ret[FrontRun].returned
    /\ door' = IF ret[FrontRun].err # NoError
               THEN Respond(door, HttpError(500, ret[FrontRun].err))
               ELSE Respond(door, HttpJSON("chat_id", ret[FrontRun].chatID))
    /\ UNCHANGED <<orchVars, pollVars, dialVars, api>>

\* GetOwnerID reporting a failed request without its cause.
ExecuteErrOpaque(cause) == <<"failed to execute Tool B request">>

\* GetOwnerID failing on the way to the registry: client.Do's error wrapped.
ExecuteErr(cause) == <<"failed to execute Tool B request: ", "Get url: ">> \o cause

\* vehicleLookupHandler decodes the request and calls GetOwnerID, which
\* rejects an empty id, builds the request and has the hostname-blocking
\* client ask safeDialer for a connection.
VehicleArrive ==
    /\ door.pc = "idle"
    /\ Len(dialLog) < MaxDials
    /\ \E decodes \in BOOLEAN, registrationID \in RegistrationIDs, url \in RegistryURLs :
         LET req == Request("vehicle", decodes, NoText, "", "", "", FALSE, registrationID, url)
             d == [door EXCEPT !.req = req]
             target == RequestURL(url, registrationID)
             dial == SafeDialer(target.addr)
             tool(err) == [d EXCEPT !.tool = ToolReturn(<< >>, err), !.pc = "toolDone"]
         IN IF ~decodes
            THEN /\ door' = Respond(d, HttpError(400, <<"decode error">>))
                 /\ UNCHANGED dialLog
            ELSE IF registrationID = << >>
            THEN /\ door' = tool(<<"Tool B received empty registration ID">>)
                 /\ UNCHANGED dialLog
            ELSE IF ~target.ok
            THEN /\ door' = tool(<<"failed to create Tool B request: ", "parse error">>)
                 /\ UNCHANGED dialLog
            ELSE /\ dialLog' = Append(dialLog,
                                 Attempt(Address(target.addr, TRUE, target.literal), dial))
                 /\ door' = IF dial.decision = "blocked" THEN tool(ExecuteErr(dial.err))
                            ELSE [d EXCEPT !.pc = "toolWait"]
    /\ UNCHANGED <<orchVars, pollVars, api>>

\* What the registry (or the network) answers.
VehicleResponses ==
    { Response(TRUE, 0, FALSE, << >>) }
    \cup { Response(FALSE, s, d, n) : s \in Statuses, d \in BOOLEAN, n \in RegistrationNumbers }

\* GetOwnerID: what it returns for the registry's response.
OwnerResult(resp) ==
    IF resp.transport THEN ToolReturn(<< >>, ExecuteErr(<<"transport">>))
    ELSE IF resp.status < 200 \/ resp.status >= 300
    THEN ToolReturn(<< >>, <<"Tool B call failed with status ", ToString(resp.status), ": ", "rawbody">>)
    ELSE IF ~resp.decodes THEN ToolReturn(<< >>, <<"failed to decode Tool B response: ", "syntax">>)
    ELSE IF MapRegistrationToOwnerID(resp.body) = << >>
    THEN ToolReturn(<< >>, <<"Tool B: Failed to map registration ", Join(resp.body), " to an owner ID">>)
    ELSE ToolReturn(MapRegistrationToOwnerID(resp.body), NoError)

\* The registry answers the request: GetOwnerID returns.
VehicleToolReturn ==
    /\ door.pc = "toolWait"
    /\ \E resp \in VehicleResponses :
         door' = [door EXCEPT !.tool = OwnerResult(resp), !.pc = "toolDone"]
    /\ UNCHANGED <<orchVars, pollVars, dialVars, api>>

\* The registry answers with a redirect: the client follows it and asks
\* safeDialer for a connection to the new address.
VehicleRedirect ==
    /\ door.pc = "toolWait"
    /\ Len(dialLog) < MaxDials
    /\ \E a \in RedirectTargets :
         LET dial == SafeDialer(a.addr)
         IN /\ dialLog' = Append(dialLog, Attempt(a, dial))
            /\ door' = IF dial.decision = "blocked"
                       THEN [door EXCEPT !.tool = ToolReturn(<< >>, ExecuteErr(dial.err)),
                                         !.pc = "toolDone"]
                       ELSE door
    /\ UNCHANGED <<orchVars, pollVars, api>>

\* GetOwnerID has returned: the vehicle handler answers.
VehicleRespond ==
    /\ door.pc = "toolDone"
    /\ door' = IF door.tool.err # NoError
               THEN Respond(door, HttpError(500, door.tool.err))
               ELSE Respond(door, HttpJSON("owner_id", Join(door.tool.ownerID)))
    /\ UNCHANGED <<orchVars, pollVars, dialVars, api>>

\* image_base64 of a recognition request.
ImagesBase64 == { "", "aW1n" }
\* The text of one recognition result.
OcrTexts == { << >>, <<" ">>, <<" ", "a", "b", "1", " ">>, <<"a", "b", "1", "2">> }
\* alpr_results of the recognition service's answer: no result, one, or two.
AlprResults ==
    { << >> } \cup { <<t>> : t \in OcrTexts } \cup { <<t, <<"a", "b", "1">> >> : t \in OcrTexts }

ImageReturn(registrationID, err) ==
    [ returned |-> TRUE, registrationID |-> registrationID, err |-> err ]

\* processBase64ImageHandler up to the request ProcessBase64Image sends: the
\* request's content is its image_base64.
ImageArrive ==
    /\ door.pc = "idle"
    /\ \E decodes \in BOOLEAN, image \in ImagesBase64, io \in {"ok", "newRequest"} :
         LET req == Request("image", decodes, NoText, image, "", "", FALSE, << >>, NoRequest.url)
             d == [door EXCEPT !.req = req]
             failed(err) == [d EXCEPT !.image = ImageReturn(<< >>, err), !.pc = "imageDone"]
         IN door' = IF ~decodes THEN Respond(d, HttpError(400, <<"decode error">>))
                    ELSE IF image = "" THEN failed(<<"invalid image data provided to Tool A">>)
                    ELSE IF io = "newRequest"
                    THEN failed(<<"failed to create Tool A request: ", "parse error">>)
                    ELSE [d EXCEPT !.pc = "imageWait"]
    /\ UNCHANGED <<orchVars, pollVars, dialVars, api>>

\* What the recognition service (or the network) answers.
ImageResponses ==
    { Response(TRUE, 0, FALSE, << >>) }
    \cup { Response(FALSE, s, d, a) : s \in Statuses, d \in BOOLEAN, a \in AlprResults }

\* ProcessBase64Image: what it returns for the service's response.
ProcessBase64Image(resp) ==
    IF resp.transport
    THEN ImageReturn(<< >>, <<"failed to execute Tool A request: ", "transport">>)
    ELSE IF resp.status < 200 \/ resp.status >= 300
    THEN ImageReturn(<< >>, <<"Tool A call failed with status ", ToString(resp.status), ": ", "rawbody">>)
    ELSE IF ~resp.decodes
    THEN ImageReturn(<< >>, <<"failed to decode Tool A response: ", "syntax">>)
    ELSE IF Len(resp.body) = 0
    THEN ImageReturn(<< >>, <<"Tool A failed to find any license plate results">>)
    ELSE IF resp.body[1] = << >>
    THEN ImageReturn(<< >>, <<"Tool A result was empty: ALPR found no readable text">>)
    ELSE ImageReturn(TrimSpace(resp.body[1]), NoError)

\* The recognition service answers: ProcessBase64Image returns.
ImageToolReturn ==
    /\ door.pc = "imageWait"
    /\ \E resp \in ImageResponses :
         door' = [door EXCEPT !.image = ProcessBase64Image(resp), !.pc = "imageDone"]
    /\ UNCHANGED <<orchVars, pollVars, dialVars, api>>

\* ProcessBase64Image has returned: the image handler answers.
ImageRespond ==
    /\ door.pc = "imageDone"
    /\ door' = IF door.image.err # NoError
               THEN Respond(door, HttpError(500, door.image.err))
               ELSE Respond(door, HttpJSON("registration_id", Join(door.image.registrationID)))
    /\ UNCHANGED <<orchVars, pollVars, dialVars, api>>

NextFrontDoor ==
    \/ ChatArrive
    \/ FilesArrive
    \/ IngestUploadSend
    \/ IngestUploadReturn
    \/ IngestAddReturn
    \/ ChatCallWorkflow
    \/ CreateChatStore(FrontRun)
    \/ CreateChatRead(FrontRun)
    \/ CreateChatSend(FrontRun)
    \/ CreateChatReturn(FrontRun)
    \/ UpdateChatStore(FrontRun)
    \/ UpdateChatKey(FrontRun)
    \/ UpdateChatSend(FrontRun)
    \/ UpdateChatReturn(FrontRun)
    \/ TriggerCompletionSend(FrontRun)
    \/ TriggerCompletionReturn(FrontRun)
    \/ ChatRespond
    \/ VehicleArrive
    \/ VehicleToolReturn
    \/ VehicleRedirect
    \/ VehicleRespond
    \/ ImageArrive
    \/ ImageToolReturn
    \/ ImageRespond

FrontDoorInit == OrchIdle /\ PollIdle /\ DialIdle /\ DoorIdle /\ ApiIdle

SpecFrontDoor == FrontDoorInit /\ [][NextFrontDoor]_vars

\* ------------------------------------------------------------------ callAPI
\* One call of callAPI on its own, with every answer of the backend.
ApiStatuses == {199, 200, 204, 299, 300, 404, 500}
ApiBodies == { NoBody } \cup { [ idKind |-> "string", id |-> c ] : c \in ChatIDs }
ApiResponses ==
    { Response(TRUE, 0, FALSE, NoBody) }
    \cup { Response(FALSE, s, d, b) : s \in ApiStatuses, d \in BOOLEAN, b \in ApiBodies }
    \cup { ReadFailed(Response(FALSE, s, d, b)) :
             s \in ApiStatuses, d \in BOOLEAN, b \in ApiBodies }

\* callAPI reaches json.Unmarshal(responseBody, responseTarget).
CallAPIUnmarshals(resp, hasTarget) ==
    /\ ~resp.transport
    /\ ~(resp.status < 200 \/ resp.status >= 300)
    /\ hasTarget

\* callAPI up to client.Do: the request body is marshalled when there is one,
\* the request is built.
CallAPISend ==
    /\ api.pc = "idle"
    /\ \E hasBody \in BOOLEAN, hasTarget \in BOOLEAN, io \in {"ok", "marshal", "newRequest"} :
         LET a == [api EXCEPT !.hasBody = hasBody, !.hasTarget = hasTarget]
         IN api' = IF hasBody /\ io = "marshal"
                   THEN [a EXCEPT !.pc = "returned",
                                  !.err = Wrap("marshal request body", <<"unsupported type">>)]
                   ELSE IF io = "newRequest"
                   THEN [a EXCEPT !.pc = "returned", !.err = <<"parse error">>]
                   ELSE [a EXCEPT !.pc = "sent", !.sent = TRUE]
    /\ UNCHANGED <<orchVars, pollVars, dialVars, door>>

\* client.Do returns: the body is read, the status checked, the body decoded
\* into the target when there is one; callAPI returns.
CallAPIReturn ==
    /\ api.pc = "sent"
    /\ \E resp \in ApiResponses :
         api' = [api EXCEPT !.pc = "returned",
                            !.resp = resp,
                            !.err = CallAPIErr(resp, api.hasTarget),
                            !.unmarshalled = CallAPIUnmarshals(resp, api.hasTarget),
                            !.target = IF api.hasTarget THEN Decoded(resp) ELSE NoBody]
    /\ UNCHANGED <<orchVars, pollVars, dialVars, door>>

NextCallAPI ==
    \/ CallAPISend
    \/ CallAPIReturn

CallAPIInit == OrchIdle /\ PollIdle /\ DialIdle /\ DoorIdle /\ ApiIdle

SpecCallAPI == CallAPIInit /\ [][NextCallAPI]_vars

Init == OrchInit /\ PollIdle /\ DialIdle /\ DoorIdle /\ ApiIdle

Next ==
    \E r \in Runs :
        \/ Start(r)
        \/ CreateChatStore(r)
        \/ CreateChatRead(r)
        \/ CreateChatSend(r)
        \/ CreateChatReturn(r)
        \/ UpdateChatStore(r)
        \/ UpdateChatKey(r)
        \/ UpdateChatSend(r)
        \/ UpdateChatReturn(r)
        \/ TriggerCompletionSend(r)
        \/ TriggerCompletionReturn(r)

Spec == Init /\ [][Next]_vars

\* ------------------------------------------------- runs one after the other
\* CreateMainChat is entered while no other run is under way.
StartAlone(r) ==
    /\ \A q \in Runs \ {r} : pc[q] \in {"idle", "done"}
    /\ Start(r)

NextSequential ==
    \E r \in Runs :
        \/ StartAlone(r)
        \/ CreateChatStore(r)
        \/ CreateChatRead(r)
        \/ CreateChatSend(r)
        \/ CreateChatReturn(r)
        \/ UpdateChatStore(r)
        \/ UpdateChatKey(r)
        \/ UpdateChatSend(r)
        \/ UpdateChatReturn(r)
        \/ TriggerCompletionSend(r)
        \/ TriggerCompletionReturn(r)

SequentialInit == OrchInit /\ PollIdle /\ DialIdle /\ DoorIdle /\ ApiIdle

SpecSequential == SequentialInit /\ [][NextSequential]_vars

\* ==================================================================== claims
CallsOf(r) == 1..Len(calls[r])
Ended(r) == pc[r] \in {"done", "exited"}
StepKinds == <<"create", "update", "completion">>

\* C1: within a run the backend calls are issued in the order create-chat,
\* update-chat (step 2), trigger-completion, and every call but the latest has
\* returned successfully: no step is issued before its predecessor succeeded.
C1_StepsInOrder ==
    \A r \in Runs :
        /\ Len(calls[r]) <= Len(StepKinds)
        /\ \A i \in CallsOf(r) :
             /\ calls[r][i].step = i
             /\ calls[r][i].kind = StepKinds[i]
             /\ (i < Len(calls[r]) => calls[r][i].state = "ok")

\* A run has issued all three calls and the third has come back.
C1_Witness ==
    \E r \in Runs : Len(calls[r]) = 3 /\ calls[r][3].state = "ok"

\* C2: once the call of step k has failed, the run has made exactly k calls
\* (no later step is issued) and no step's call appears twice.
C2_FailureStopsRun ==
    \A r \in Runs :
        /\ \A i \in CallsOf(r) : calls[r][i].state = "failed" => Len(calls[r]) = i
        /\ \A i, j \in CallsOf(r) : calls[r][i].step = calls[r][j].step => i = j

\* A run ended after its update call (step 2) failed.
C2_Witness ==
    \E r \in Runs : Ended(r) /\ Len(calls[r]) = 2 /\ calls[r][2].state = "failed"

\* The step descriptions the code puts in its errors.
StepDescriptions == <<"create chat", "Inject empty assistant message", "trigger completion">>

\* err reads "failed to <description of step i>: <cause>".
NamesStep(err, i) ==
    /\ Len(err) > 3
    /\ err[1] = "failed to "
    /\ err[2] = StepDescriptions[i]
    /\ err[2] # ""
    /\ err[3] = ": "

\* C3 (as claimed): whenever the call of a step has failed, the entry point has
\* returned to its caller with an error "failed to <step description>: <cause>"
\* naming that step; the run never ends without handing the error back.
C3_FailureHandedBack ==
    \A r \in Runs : \A i \in CallsOf(r) :
        calls[r][i].state = "failed" =>
            /\ ret[r].returned
            /\ ret[r].chatID = ""
            /\ NamesStep(ret[r].err, i)

CompletionCalls(r) == { i \in CallsOf(r) : calls[r][i].kind = "completion" }

\* C4: no two completion-trigger calls carry the same assistant-message id, and
\* a run that returned without error has issued exactly one.
C4_CompletionOnce ==
    /\ \A r1, r2 \in Runs : \A i \in CompletionCalls(r1), j \in CompletionCalls(r2) :
          calls[r1][i].payload.id = calls[r2][j].payload.id => r1 = r2 /\ i = j
    /\ \A r \in Runs :
          ret[r].returned /\ ret[r].err = NoError => Cardinality(CompletionCalls(r)) = 1

\* Two runs have both returned without error.
C4_Witness ==
    \A r \in Runs : ret[r].returned /\ ret[r].err = NoError

UpdateCalls(r) == { i \in CallsOf(r) : calls[r][i].kind = "update" }
WithRole(msgs, role) == { k \in 1..Len(msgs) : msgs[k].role = role }

\* C5 (as claimed): in every update payload the assistant message's parent id
\* is the id of the user message of that payload, and the payload holds exactly
\* one user turn and one assistant turn.
C5_ParentIsPayloadUser ==
    \A r \in Runs : \A i \in UpdateCalls(r) :
        LET msgs == calls[r][i].payload.messages
        IN /\ Cardinality(WithRole(msgs, "user")) = 1
           /\ Cardinality(WithRole(msgs, "assistant")) = 1
           /\ \A u \in WithRole(msgs, "user"), a \in WithRole(msgs, "assistant") :
                 msgs[a].parentId = msgs[u].id

\* C6 (as claimed): every update and completion payload of a run carries that
\* run's own user message (its id, its content) and its own prompt as title,
\* whatever other runs do meanwhile.
C6_OwnUserMessage ==
    \A r \in Runs : \A i \in CallsOf(r) :
        calls[r][i].kind \in {"update", "completion"} =>
            LET p == calls[r][i].payload
            IN /\ p.messages[1].id = loc[r].userMsgID
               /\ p.messages[1].content = loc[r].question
               /\ (calls[r][i].kind = "update" => p.title = loc[r].question)

\* C7: in every history snapshot sent, current_id is the id of the message the
\* run added last (the user-message id in the create payload, the
\* assistant-message id in an update payload), and the snapshot has that key.
C7_CurrentIsLatest ==
    \A r \in Runs : \A i \in CallsOf(r) :
        calls[r][i].kind \in {"create", "update"} =>
            LET h == calls[r][i].payload.history
            IN /\ h.current_id \in DOMAIN h.messages
               /\ h.current_id = IF calls[r][i].kind = "create"
                                 THEN loc[r].userMsgID ELSE loc[r].assistantMsgID
               /\ (calls[r][i].kind = "update" =>
                      h.current_id = calls[r][i].payload.messages[2].id)

\* A run has sent its create payload and its update payload.
C7_Witness ==
    \E r \in Runs : UpdateCalls(r) # {} /\ calls[r][1].kind = "create"

\* ------------------------------------------------------- claims: the poller
CallOk(resp) == CallAPIErr(resp, TRUE) = NoError
HasPolled(resp) == Len(resp.body) > 0 /\ PolledID \in DOMAIN resp.body[1].history.messages
PolledMsg(resp) == resp.body[1].history.messages[PolledID]

\* The response holds non-empty assistant content for the polled id.
Complete(resp) ==
    /\ CallOk(resp)
    /\ HasPolled(resp)
    /\ PolledMsg(resp).role = "assistant"
    /\ PolledMsg(resp).content # NoText

\* Not ready in the sense of C8: empty list, id absent or empty content.
NotReadyYet(resp) ==
    /\ CallOk(resp)
    /\ \/ Len(resp.body) = 0
       \/ ~HasPolled(resp)
       \/ PolledMsg(resp).content = NoText

\* Not ready for any of the four reasons.
NotReady(resp) == CallOk(resp) /\ ~Complete(resp)

\* C8 (as claimed): when the first N responses (N < 15) are not ready and
\* response N+1 holds non-empty assistant content, one invocation of the poller
\* makes N+1 fetches and returns the content of response N+1.
C8_ReturnsFirstReady ==
    pollPc = "done" =>
        \A n \in 0..(Len(pollScript) - 1) :
            ( /\ n < MaxPollingAttempts
              /\ \A i \in 1..n : NotReadyYet(pollScript[i])
              /\ Complete(pollScript[n + 1]) )
            => /\ pollFetches = n + 1
               /\ pollRet = PollReturn(PolledMsg(pollScript[n + 1]).content, NoError)

NotReadyReasons ==
    { <<"chat response array was empty, continuing poll">>,
      <<"assistant message ID not yet present in history, continuing poll">>,
      <<"found message, but role is incorrect, continuing poll">>,
      <<"assistant message content is empty, continuing poll">> }

\* An error that is neither a per-fetch not-ready reason nor a failure of the
\* fetch call.
IsPollTimeout(err) ==
    /\ err # NoError
    /\ err \notin NotReadyReasons
    /\ ~(Len(err) > 1 /\ err[1] = "failed to " /\ err[2] = "fetch chat state")

\* C9 (as claimed): an invocation ends after at most 15 fetches, and when all
\* 15 fetches are not ready it reports a poll-timeout failure, distinct from a
\* failure of the fetch call and from the per-fetch not-ready reasons.
C9_TimeoutAfterBudget ==
    pollPc = "done" =>
        /\ pollFetches <= MaxPollingAttempts
        /\ (\A i \in 1..MaxPollingAttempts : NotReady(RespAt(i)))
              => pollFetches = MaxPollingAttempts /\ IsPollTimeout(pollRet.err)

\* C10: the poller returns without error exactly when its fetch came back with
\* a non-empty list whose first element's history holds the polled id with role
\* "assistant" and non-empty content; it then returns that content of that one
\* fetch, and in every other case empty content and an error.
C10_CompleteIffAllChecks ==
    pollPc = "done" =>
        LET resp == RespAt(pollFetches)
        IN /\ pollFetches = 1
           /\ (pollRet.err = NoError) <=> Complete(resp)
           /\ Complete(resp) => pollRet.content = PolledMsg(resp).content
           /\ ~Complete(resp) => pollRet.content = NoText /\ pollRet.err # NoError

\* The poller returned the content of the first of two chats in the list.
C10_Witness ==
    /\ pollPc = "done"
    /\ Len(RespAt(1).body) = 2
    /\ pollRet = PollReturn(<<"a">>, NoError)

\* ------------------------------------------------------------------- C13
\* All three backend calls of run r were issued and came back successfully.
StepsSucceeded(r) ==
    /\ Len(calls[r]) = 3
    /\ \A i \in 1..3 : calls[r][i].state = "ok"

C17_UpdateCarriesFullState ==
    \A r \in Runs : \A i \in UpdateCalls(r) :
        LET p == calls[r][i].payload
            h == p.history.messages
        IN /\ Len(p.messages) = 2
           /\ p.messages[1].role = "user"
           /\ p.messages[2].role = "assistant"
           /\ Cardinality(DOMAIN h) = 2
           /\ \A k \in DOMAIN h : h[k].id = k
           /\ h[p.messages[1].id] = p.messages[1]
           /\ h[p.messages[2].id] = p.messages[2]

\* ------------------------------------------------------------------- C18
\* The reason fetchFinalChatWithPolling must give for a decoded response that
\* is not complete: that of the first unmet condition in the order empty
\* response, id absent, wrong role, empty content.
FirstUnmet(resp) ==
    IF Len(resp.body) = 0
    THEN <<"chat response array was empty, continuing poll">>
    ELSE IF ~HasPolled(resp)
    THEN <<"assistant message ID not yet present in history, continuing poll">>
    ELSE IF PolledMsg(resp).role # "assistant"
    THEN <<"found message, but role is incorrect, continuing poll">>
    ELSE <<"assistant message content is empty, continuing poll">>

\* C18: the four not-ready reasons are pairwise distinct, the reason returned
\* is that of the first unmet condition in the order empty response, id
\* absent, wrong role, empty content, and a failed fetch call is reported
\* with an error that is none of the four.
C18_FirstUnmetReason ==
    /\ Cardinality(NotReadyReasons) = 4
    /\ pollPc = "done" =>
         LET resp == RespAt(pollFetches)
         IN /\ NotReady(resp) => pollRet.err = FirstUnmet(resp)
            /\ ~CallOk(resp) => /\ pollRet.err \notin NotReadyReasons
                                /\ pollRet.err # NoError
                                /\ pollRet.err[2] = "fetch chat state"

\* A message of the wrong role with empty content was reported as wrong role.
C18_Witness ==
    /\ pollPc = "done"
    /\ CallOk(RespAt(pollFetches))
    /\ HasPolled(RespAt(pollFetches))
    /\ PolledMsg(RespAt(pollFetches)).role = "user"
    /\ PolledMsg(RespAt(pollFetches)).content = NoText
    /\ pollRet.err = <<"found message, but role is incorrect, continuing poll">>

\* ------------------------------------------------------------------- C20
\* The decoded create-chat response has no usable id: absent, not a string,
\* or the empty string.
NoUsableId(body) == body.idKind # "string" \/ body.id = ""

\* C20: when the create-chat call came back successfully but its decoded
\* response has no id, a non-string id or an empty id, createChat returns an
\* error with empty ids and the run issues no further call.
C20_NoIdAborts ==
    \A r \in Runs :
        ( /\ Len(calls[r]) >= 1
          /\ calls[r][1].state = "ok"
          /\ NoUsableId(loc[r].rawResponse) )
        => /\ loc[r].created.returned
           /\ loc[r].created.err # NoError
           /\ loc[r].created.chatID = ""
           /\ loc[r].created.userMsgID = ""
           /\ Len(calls[r]) = 1
           /\ Ended(r)

\* A run whose create call succeeded with an empty-string id has ended.
C20_Witness ==
    \E r \in Runs :
        /\ Len(calls[r]) = 1
        /\ calls[r][1].state = "ok"
        /\ loc[r].rawResponse = [ idKind |-> "string", id |-> "" ]
        /\ loc[r].created.err = <<"failed to extract top-level ChatID from API response">>
        /\ Ended(r)

\* ------------------------------------------------------------------- C16
\* The user message run r builds from its own input and fresh id.
OwnUserMessage(r) ==
    [ZeroMessage EXCEPT !.id = NewUUID(r, 1), !.role = "user",
                        !.content = loc[r].question, !.timestamp = Now(1),
                        !.models = <<ModelName>>]

\* The message ids of a payload: listed messages, history keys and the
\* messages stored under them, parents included.
PayloadIds(p) ==
    { p.messages[j].id : j \in DOMAIN p.messages }
    \cup { p.messages[j].parentId : j \in DOMAIN p.messages }
    \cup DOMAIN p.history.messages
    \cup { p.history.messages[k].id : k \in DOMAIN p.history.messages }
    \cup { p.history.messages[k].parentId : k \in DOMAIN p.history.messages }
    \cup { p.history.current_id }

\* C16: when runs execute one after the other, every payload of a run is
\* built from that run's prompt, its fresh message ids and the chat id its own
\* create call returned: the user message, the title and every message id in
\* it are the run's own, whatever an earlier run (ended well or not) left in
\* the package variables.
C16_NoLeftover ==
    \A r \in Runs : \A i \in CallsOf(r) :
        LET p == calls[r][i].payload
        IN /\ p.messages[1] = OwnUserMessage(r)
           /\ calls[r][i].kind \in {"create", "update"} =>
                 /\ p.title = loc[r].question
                 /\ PayloadIds(p) \subseteq {"", NewUUID(r, 1), NewUUID(r, 2)}
                 /\ p.history.messages[NewUUID(r, 1)] = OwnUserMessage(r)
           /\ calls[r][i].kind = "update" => p.id = loc[r].chatID
           /\ calls[r][i].kind = "completion" =>
                 /\ p.chat_id = loc[r].chatID
                 /\ p.id = NewUUID(r, 2)
                 /\ Len(p.messages) = 1

\* Two runs with different prompts, the first ended in failure after its
\* create call, the second issued all three calls.
C16_Witness ==
    \E r, q \in Runs :
        /\ r # q
        /\ pc[q] = "done" /\ Len(calls[q]) = 1 /\ ret[q].err # NoError
        /\ Len(calls[r]) = 3
        /\ loc[r].question # loc[q].question
        /\ userMessage = OwnUserMessage(r)

\* ------------------------------------------------------------------- C11
\* C11: a connection attempt is handed to the network dialer exactly when the
\* host part of its address (the whole address when it does not split into
\* host and port) is an IPv4 or IPv6 literal; every other attempt is refused
\* with the "hostname lookup blocked" error, without name resolution and
\* without connection.
C11_DialsIffLiteral ==
    \A i \in DOMAIN dialLog :
        LET a == dialLog[i].input
            res == dialLog[i].result
        IN /\ res.decision = "dial" <=> a.literal
           /\ ~a.literal =>
                /\ res.decision = "blocked"
                /\ res.err # NoError
                /\ res.err[1] = "hostname lookup blocked: connection attempt to '"
                /\ ~res.lookup
                /\ ~res.connect

\* An empty host or an IPv6 literal in brackets without port was refused and
\* an IPv6 literal in brackets with a port was dialed.
C11_Witness ==
    /\ \E i \in DOMAIN dialLog :
         dialLog[i].input.addr \in {<<":", "1">>, <<"[", ":", ":", "1", "]">>}
         /\ dialLog[i].result.decision = "blocked"
         /\ ~dialLog[i].result.lookup
    /\ \E i \in DOMAIN dialLog :
         dialLog[i].input.addr = <<"[", ":", ":", "1", "]", ":", "1">>
         /\ dialLog[i].result.decision = "dial" /\ dialLog[i].result.connect

\* ------------------------------------------------------------------- C19
\* C19: every connection attempt is decided on its own address: two attempts
\* with the same address get the same decision wherever they stand in the
\* sequence, and an attempt whose host is no IP literal is refused, without
\* lookup or connection, also after earlier attempts were dialed.
C19_DecidedPerAttempt ==
    /\ \A i, j \in DOMAIN dialLog :
         dialLog[i].input.addr = dialLog[j].input.addr => dialLog[i].result = dialLog[j].result
    /\ \A i \in DOMAIN dialLog :
         ( /\ \E j \in 1..(i - 1) : dialLog[j].result.decision = "dial"
           /\ ~dialLog[i].input.literal )
         => /\ dialLog[i].result.decision = "blocked"
            /\ ~dialLog[i].result.lookup
            /\ ~dialLog[i].result.connect

\* A name was refused after an IP literal had been dialed and connected.
C19_Witness ==
    \E i, j \in DOMAIN dialLog :
        /\ j < i
        /\ dialLog[j].result.decision = "dial" /\ dialLog[j].result.connect
        /\ dialLog[i].input.addr = <<"g", ":", "1">>
        /\ dialLog[i].result.decision = "blocked"

\* ------------------------------------------------------------------- C12
\* The error text holds the given part.
Carries(err, part) == \E i \in DOMAIN err : err[i] = part
BlockedText == "hostname lookup blocked: connection attempt to '"

\* A decoded vehicle lookup against a registry URL whose host is a name has
\* been answered.
HostnameLookupAnswered ==
    /\ door.req.kind = "vehicle"
    /\ door.req.decodes
    /\ ~door.req.url.isIP
    /\ door.pc = "responded"

\* The lookup failed as a refused dial: GetOwnerID's error carries the
\* "hostname lookup blocked" text, nothing was resolved or connected, no owner
\* id was returned and the answer is a 500 with that error.
FailedAsBlocked ==
    /\ door.tool.returned
    /\ Carries(door.tool.err, BlockedText)
    /\ door.tool.ownerID = << >>
    /\ \A i \in DOMAIN dialLog : ~dialLog[i].result.lookup /\ ~dialLog[i].result.connect
    /\ door.responses = <<HttpError(500, door.tool.err)>>

\* C12 (as claimed): every vehicle lookup whose registry URL has a hostname
\* as host fails with the "hostname lookup blocked" error, without DNS query
\* or connection, without owner id, and is answered with status 500.
C12_HostnameLookupBlocked == HostnameLookupAnswered => FailedAsBlocked

\* C12 (amended): the same for a lookup with a non-empty registration id whose
\* request URL is well formed.
C12_HostnameLookupBlockedValidRequest ==
    ( /\ HostnameLookupAnswered
      /\ door.req.registrationID # << >>
      /\ RequestURL(door.req.url, door.req.registrationID).ok )
    => FailedAsBlocked

\* The lookup of "AB12" at http://g.g/ was refused at the dialer and answered
\* with 500.
C12_Witness ==
    /\ HostnameLookupAnswered
    /\ door.req.registrationID = <<"A", "B", "1", "2">>
    /\ door.req.url.host = <<"g", ".", "g">>
    /\ Len(dialLog) = 1
    /\ dialLog[1].input.addr = <<"g", ".", "g", ":", "1">>
    /\ dialLog[1].result.decision = "blocked"
    /\ door.responses[1].status = 500

\* ------------------------------------------------------------------- C14
\* The chat request carries content and a knowledge id.
ChatWithContent ==
    /\ door.req.kind = "chat"
    /\ door.req.decodes
    /\ door.req.content # ""
    /\ door.req.knowledgeID # ""

\* The ingestion calls made so far are an upload that succeeded followed by
\* an add of the uploaded file to the request's collection that succeeded.
Ingested ==
    /\ Len(door.ingest) = 2
    /\ door.ingest[1].kind = "upload" /\ door.ingest[1].state = "ok"
    /\ door.ingest[2].kind = "add" /\ door.ingest[2].state = "ok"
    /\ door.ingest[2].fileID = door.fileID
    /\ door.ingest[2].knowledgeID = door.req.knowledgeID

FileRefs(files) == { i \in DOMAIN files : files[i].type = "file" }

\* C14: for a chat request with content and a knowledge id, the workflow's
\* calls are issued only after upload and add succeeded, in that order; the
\* completion request has exactly one reference of type "file" and its id is
\* the document id the upload returned; after a failed ingestion the workflow
\* issues no call.
C14_IngestedBeforeChat ==
    ChatWithContent =>
        /\ calls[FrontRun] # << >> => Ingested
        /\ pc[FrontRun] # "idle" => Ingested
        /\ \A i \in CallsOf(FrontRun) :
             calls[FrontRun][i].kind = "completion" =>
                LET files == calls[FrontRun][i].payload.files
                IN /\ Cardinality(FileRefs(files)) = 1
                   /\ \A j \in FileRefs(files) : files[j].id = door.fileID
                   /\ door.fileID # ""
        /\ door.ingestErr # NoError =>
             /\ calls[FrontRun] = << >>
             /\ pc[FrontRun] = "idle"
             /\ door.pc = "responded"

\* The completion request of a chat with content was issued with the uploaded
\* file's id as its file reference.
C14_Witness ==
    /\ ChatWithContent
    /\ Ingested
    /\ Len(calls[FrontRun]) = 3
    /\ \E j \in DOMAIN calls[FrontRun][3].payload.files :
         calls[FrontRun][3].payload.files[j] = FileReference("file", "file1")

\* ------------------------------------------------------------------- C15
\* The caller's input is malformed: the body does not decode, or a field the
\* handler requires is missing (knowledge_id with content; the form's file
\* part and knowledgeID).
Malformed(req) ==
    \/ ~req.decodes
    \/ req.kind = "chat" /\ req.content # "" /\ req.knowledgeID = ""
    \/ req.kind = "files" /\ (~req.hasFile \/ req.knowledgeID = "")

\* The error the orchestrator or the tool returned to the handler, NoError
\* when none did.
OperationErr ==
    IF door.ingestErr # NoError THEN door.ingestErr
    ELSE IF door.req.kind = "chat" /\ ret[FrontRun].returned THEN ret[FrontRun].err
    ELSE IF door.req.kind = "vehicle" /\ door.tool.returned THEN door.tool.err
    ELSE IF door.req.kind = "image" /\ door.image.returned THEN door.image.err
    ELSE NoError

\* The operation the request asked for has returned without error.
OperationDone ==
    \/ door.req.kind = "chat" /\ ret[FrontRun].returned /\ ret[FrontRun].err = NoError
                              /\ (door.req.content # "" => Ingested)
    \/ door.req.kind = "files" /\ Ingested
    \/ door.req.kind = "vehicle" /\ door.tool.returned /\ door.tool.err = NoError
    \/ door.req.kind = "image" /\ door.image.returned /\ door.image.err = NoError

\* err is the tail of text: the text carries the error.
EndsWith(text, err) ==
    /\ Len(text) >= Len(err)
    /\ SubSeq(text, Len(text) - Len(err) + 1, Len(text)) = err

C21_IdsFlowUnchanged ==
    \A r \in Runs :
        /\ Len(calls[r]) >= 2 =>
             LET create == calls[r][1].payload
                 update == calls[r][2]
             IN /\ loc[r].rawResponse.idKind = "string"
                /\ update.payload.id = loc[r].rawResponse.id
                /\ update.path = <<"/api/v1/chats/", loc[r].rawResponse.id>>
                /\ update.payload.messages[2].parentId = create.history.current_id
                /\ update.payload.messages[2].parentId = NewUUID(r, 1)
        /\ Len(calls[r]) >= 3 =>
             LET update == calls[r][2].payload
                 completion == calls[r][3].payload
             IN /\ completion.chat_id = loc[r].rawResponse.id
                /\ completion.session_id = loc[r].rawResponse.id
                /\ completion.id = update.messages[2].id
                /\ completion.id = update.history.current_id

\* Two runs got different chat ids and both issued their completion request.
C21_Witness ==
    \E r, q \in Runs :
        /\ Len(calls[r]) = 3 /\ Len(calls[q]) = 3
        /\ loc[r].rawResponse.id = "chatA" /\ loc[q].rawResponse.id = "chatB"
        /\ calls[r][3].payload.session_id = "chatA"

\* ------------------------------------------------------------------- C22
\* The user turn of a payload, by the fields the claim names.
Turn(m) == [ id |-> m.id, role |-> m.role, content |-> m.content, timestamp |-> m.timestamp ]

\* C22 (as claimed): the user message in a run's update payload and in its
\* completion request equals, in id, role, content and timestamp, the one in
\* its create-chat payload, and every assistant message sent has empty
\* content.
C22_UserTurnUnchanged ==
    \A r \in Runs : \A i \in CallsOf(r) :
        LET p == calls[r][i].payload
            first == calls[r][1].payload.messages[1]
        IN /\ Turn(p.messages[1]) = Turn(first)
           /\ \A j \in DOMAIN p.messages :
                p.messages[j].role = "assistant" => p.messages[j].content = NoText
           /\ calls[r][i].kind \in {"create", "update"} =>
                \A k \in DOMAIN p.history.messages :
                    /\ p.history.messages[k].role = "user"
                         => Turn(p.history.messages[k]) = Turn(first)
                    /\ p.history.messages[k].role = "assistant"
                         => p.history.messages[k].content = NoText

\* ------------------------------------------------------------------- C24
\* The timestamps of the messages a payload carries.
Timestamps(p) == { p.messages[j].timestamp : j \in DOMAIN p.messages }

\* C24 (as claimed): every message timestamp in the payload of step 2 or 3 was
\* read from the clock in that step, none in an earlier step.
C24_TimestampsFresh ==
    \A r \in Runs : \A i \in CallsOf(r) :
        calls[r][i].step >= 2 =>
            \A t \in Timestamps(calls[r][i].payload) : t = Now(calls[r][i].step)

\* C24 (amended): the assistant message of an update payload carries the
\* clock reading of that step, in the list and in the history map, and the
\* completion request's datetime is read in step 3; the user message keeps
\* the timestamp it was given when it was created.
C24_AssistantTimestampFresh ==
    \A r \in Runs : \A i \in CallsOf(r) :
        LET p == calls[r][i].payload
        IN /\ calls[r][i].kind = "update" =>
                /\ p.messages[2].timestamp = Now(calls[r][i].step)
                /\ p.history.messages[p.messages[2].id].timestamp = Now(calls[r][i].step)
                /\ p.messages[2].timestamp # calls[r][1].payload.messages[1].timestamp
           /\ calls[r][i].kind = "completion" => p.datetime = Now(3)
           /\ \A j \in DOMAIN p.messages :
                p.messages[j].role = "user" => p.messages[j].timestamp = Now(1)

\* An update was sent whose user message holds the time of step 1 and whose
\* assistant message the time of step 2.
C24_Witness ==
    \E r \in Runs :
        /\ Len(calls[r]) >= 2
        /\ calls[r][2].payload.messages[1].timestamp = Now(1)
        /\ calls[r][2].payload.messages[2].timestamp = Now(2)

\* ------------------------------------------------------------------- C27
\* C27: a run that ended in success has issued exactly the create call, one
\* update (step 2) and one completion call; no run ever issues an update of
\* step 4, a mark-completed call or a fetch of the chat state, and the poller
\* is never entered.
C27_EndsAfterStepThree ==
    /\ \A r \in Runs :
         /\ \A i \in CallsOf(r) :
              /\ calls[r][i].step \in {1, 2, 3}
              /\ calls[r][i].kind \in {"create", "update", "completion"}
              /\ calls[r][i].path # <<"/api/chat/completed">>
         /\ Cardinality({ i \in CallsOf(r) : calls[r][i].kind = "update" }) <= 1
         /\ (pc[r] = "done" /\ ret[r].returned /\ ret[r].err = NoError) =>
              /\ Len(calls[r]) = 3
              /\ [ i \in 1..3 |-> calls[r][i].kind ] = StepKinds
              /\ \A i \in 1..3 : calls[r][i].state = "ok"
    /\ pollFetches = 0
    /\ pollPc = "done"

\* A run returned successfully with three calls made.
C27_Witness ==
    \E r \in Runs :
        /\ pc[r] = "done" /\ ret[r].returned /\ ret[r].err = NoError
        /\ Len(calls[r]) = 3

\* ---------------------------------------------------------------------- C30
\* The chat request gives content and no knowledge id.
ContentWithoutKnowledge ==
    /\ door.req.kind = "chat"
    /\ door.req.decodes
    /\ door.req.content # ""
    /\ door.req.knowledgeID = ""

\* C30: a chat request with content and an empty knowledge id is answered
\* with one 400 and nothing else happens for it: no local file is created, no
\* upload or add call is made, and the workflow is not entered.
C30_RejectedBeforeSideEffects ==
    ContentWithoutKnowledge =>
        /\ door.pc = "responded"
        /\ Len(door.responses) = 1
        /\ door.responses[1].status = 400
        /\ door.files = << >>
        /\ door.ingest = << >>
        /\ pc[FrontRun] = "idle"
        /\ calls[FrontRun] = << >>

C30_Witness ==
    /\ ContentWithoutKnowledge
    /\ door.pc = "responded"
    /\ door.responses =
         <<HttpError(400, <<"knowledge_id is required when providing content">>)>>

\* ---------------------------------------------------------------------- C23
\* C23: the completion request of the run a chat request starts carries the
\* references of what the handler supplied: "collection" with the knowledge
\* id when it is not empty, then "file" with the document id when it is not
\* empty, and nothing else.
C23_FilesAsSupplied ==
    door.req.kind = "chat" =>
        \A i \in DOMAIN calls[FrontRun] :
            calls[FrontRun][i].kind = "completion" =>
                calls[FrontRun][i].payload.files =
                    Files(door.req.knowledgeID, door.req.documentID)

\* ---------------------------------------------------------------------- C28
\* C28: when a file-upload request has been answered, every file handle
\* opened for it (the form's file, the handler's temporary file, the file
\* CreateFile wrote, the file uploadFileAPI read) has been closed.
C28_HandlesClosed ==
    (door.req.kind = "files" /\ door.pc = "responded") => door.opened \subseteq door.closed

\* The handles of CreateFile and uploadFileAPI are closed on every path, for
\* both kinds of request.
C28_IngestHandlesClosed ==
    door.pc = "responded" => (door.opened \cap {"markdown", "upload"}) \subseteq door.closed

\* ---------------------------------------------------------------------- C29
\* C29: when ProcessBase64Image has returned without an error, the
\* registration id it returned is not empty.
C29_IdNonEmpty ==
    (door.image.returned /\ door.image.err = NoError) => door.image.registrationID # << >>

\* ---------------------------------------------------------------------- C25
\* callAPI sent the request and has returned.
CallAPIAnswered == api.pc = "returned" /\ api.sent

\* C25: when the round trip or the read of the response body failed, callAPI
\* returns an error.
C25_TransportFailureIsError ==
    (CallAPIAnswered /\ (api.resp.transport \/ ~api.resp.bodyRead)) => api.err # NoError

\* A failed round trip alone always makes callAPI return an error.
C25_RoundTripFailureIsError ==
    (CallAPIAnswered /\ api.resp.transport) => api.err # NoError

\* ---------------------------------------------------------------------- C26
\* C26: for a status outside 200-299 callAPI returns the error naming the
\* status and the raw body, and the target is not decoded into; for a status
\* inside 200-299 it returns no error without a target, and with a target
\* whose body does not decode the decode error.
C26_StatusThenDecode ==
    (CallAPIAnswered /\ ~api.resp.transport) =>
        IF api.resp.status \notin 200..299
        THEN /\ api.err = <<"API call failed with status ", ToString(api.resp.status),
                            ": ", "rawbody">>
             /\ ~api.unmarshalled
             /\ api.target = NoBody
        ELSE /\ ~api.hasTarget => api.err = NoError
             /\ (api.hasTarget /\ ~api.resp.decodes) =>
                    /\ api.err # NoError
                    /\ api.err[1] = "failed to decode response: "
             /\ (api.hasTarget /\ api.resp.decodes) =>
                    /\ api.err = NoError
                    /\ api.target = api.resp.body

\* A 300 whose body would decode, answered to a call with a target: the
\* error names the status and the target is left alone.
C26_Witness ==
    /\ CallAPIAnswered
    /\ ~api.resp.transport
    /\ api.resp.status = 300
    /\ api.hasTarget
    /\ api.resp.decodes
    /\ api.resp.body # NoBody
    /\ api.err = <<"API call failed with status ", "300", ": ", "rawbody">>
    /\ api.target = NoBody

====
